---- MODULE Spec2Model ----
(***************************************************************************)
(* Model of the outliner segmentation engine of buddhistAI-cataloger:      *)
(* documents, segments, the progress counters, the Redis content cache     *)
(* and the boundary detector, as implemented in                            *)
(* backend/outliner/controller/outliner.py, backend/routers/outliner.py,   *)
(* backend/outliner/utils/outliner_utils.py, backend/core/redis.py,        *)
(* backend/core/database.py and backend/controller/ai.py.                  *)
(*                                                                         *)
(* Every request handler runs in its own SQLAlchemy session created by     *)
(* SessionLocal with autoflush=False: a query issued inside a handler sees *)
(* the rows as they were at the last flush (commit), not the objects the   *)
(* handler has added, changed or deleted in memory.                        *)
(***************************************************************************)
EXTENDS Integers, Sequences, FiniteSets, TLC

\* ---------------------------------------------------------------- bounds
MaxLen == 3        \* longest document content explored
MaxId == 3         \* number of segment ids (uuid4 values) ever handed out
MaxBulk == 1       \* longest create / update list of one bulk request
MaxComments == 2

\* ------------------------------------------------------------ value sets
\* "Y" stands for the glyph U+0F04 and "D" for U+0F05, so that <<Y,D,D>> is
\* the Tibetan opening marker of the rule phase.
Chars == {"Y", "D"}
NoVal == "None"                 \* Python None for string-valued fields
NoText == <<"#None">>           \* Python None where a text is expected
NoCache == <<"#miss">>          \* absent cache entry / redis GET -> None
NoInt == -99                    \* Python None where an int is expected
DocIds == {"d1"}
SegIds == 1..MaxId

Contents == UNION {[1..k -> Chars] : k \in 0..MaxLen}

\* --------------------------------------------------------- pure helpers
Truthy(v) == v # NoVal /\ v # ""

TextTruthy(t) == t # NoText /\ t # <<>>

PyIdx(i, n) == IF i < 0 THEN (IF n + i < 0 THEN 0 ELSE n + i)
               ELSE (IF i > n THEN n ELSE i)

\* Python's s[a:b]
PySlice(s, a, b) ==
  LET lo == PyIdx(a, Len(s))
      hi == PyIdx(b, Len(s))
  IN IF lo >= hi THEN <<>> ELSE SubSeq(s, lo + 1, hi)

Max(S) == CHOOSE x \in S : \A y \in S : y <= x
Min(S) == CHOOSE x \in S : \A y \in S : x <= y

\* OutlinerSegment.update_annotation_status
update_annotation_status(seg) ==
  [seg EXCEPT !.is_annotated = Truthy(seg.title) \/ Truthy(seg.author)]

\* A freshly constructed OutlinerSegment (column defaults filled in).
\* The comment column: null, the list of entries {content, username,
\* timestamp} that the comment endpoints store, or the string that the
\* deprecated `comment` field of an update stores.
NoComment == [kind |-> "null", items |-> <<>>, str |-> ""]
ListComment(items) == [kind |-> "list", items |-> items, str |-> ""]
StrComment(str) == [kind |-> "str", items |-> <<>>, str |-> str]

OutlinerSegment(d, text, idx, s, e, title, author, tref, aref, parent, status) ==
  [document_id |-> d, text |-> text, segment_index |-> idx,
   span_start |-> s, span_end |-> e, title |-> title, author |-> author,
   title_bdrc_id |-> tref, author_bdrc_id |-> aref,
   parent_segment_id |-> parent, status |-> status, is_annotated |-> FALSE,
   comment |-> NoComment]

VARIABLES docs, segs, cache, nextId, pc, last
vars == <<docs, segs, cache, nextId, pc, last>>

\* ------------------------------------------------------------ the store
SegsOf(S, d) == {i \in DOMAIN S : S[i].document_id = d}

CountAnnotated(S, d) == Cardinality({i \in SegsOf(S, d) : S[i].is_annotated})

\* update_document_progress: two COUNT queries, evaluated on the rows of
\* the store (dbsegs), then OutlinerDocument.update_progress.
update_document_progress(doc, dbsegs, d) ==
  [doc EXCEPT !.total_segments = Cardinality(SegsOf(dbsegs, d)),
              !.annotated_segments = CountAnnotated(dbsegs, d)]

\* --------------------------------------------------------------- cache
\* get_document_with_cache on a session whose document object currently
\* holds content `mem`; getOk / setOk say whether the redis GET / SETEX
\* went through.  Result: the content the document object holds afterwards
\* (written to the store at the next commit) and the cache entry.
get_document_with_cache(mem, entry, getOk, setOk) ==
  LET cached == IF getOk THEN entry ELSE NoCache
  IN IF cached # NoCache
       THEN [content |-> cached, entry |-> entry]
       ELSE [content |-> mem, entry |-> IF setOk THEN mem ELSE entry]

Idle == [at |-> "idle", d |-> "-", c |-> <<>>]

NoLast == [op |-> "init", ok |-> TRUE, err |-> "", d |-> "-", a |-> 0, b |-> 0,
           p |-> 0, n |-> 0, ids |-> {}, rt |-> FALSE, otext |-> <<>>, ostart |-> 0,
           oend |-> 0, ototal |-> 0]

Done(op, d) == [NoLast EXCEPT !.op = op, !.d = d]
Failed(op, d, err) == [NoLast EXCEPT !.op = op, !.d = d, !.ok = FALSE, !.err = err]

\* the row create_document stores
OutlinerDocument(content, user_id) ==
  [content |-> content, total_segments |-> 0, annotated_segments |-> 0,
   status |-> "active", user_id |-> user_id]

\* create_document: the row is committed, then the content is cached.
Init ==
  /\ \E c \in Contents, setOk \in BOOLEAN :
       /\ docs = [d \in DocIds |-> OutlinerDocument(c, "u1")]
       /\ cache = [d \in DocIds |-> IF setOk THEN c ELSE NoCache]
  /\ segs = << >>
  /\ nextId = 1
  /\ pc = Idle
  /\ last = NoLast

\* Rows of document d ordered by segment_index (ORDER BY segment_index);
\* rows with equal index come in an order the database chooses.
Perms(S) ==
  {f \in [1..Cardinality(S) -> S] : \A i, j \in 1..Cardinality(S) : i # j => f[i] # f[j]}

OrderedByIndex(S, ids) ==
  {f \in Perms(ids) : \A i, j \in 1..Cardinality(ids) :
       i < j => S[f[i]].segment_index <= S[f[j]].segment_index}

Without(S, ids) == [i \in DOMAIN S \ ids |-> S[i]]

\* db.commit() of a handler that loaded document d: the segment rows and the
\* document row (counters and in-memory content) reach the store.
CommitDoc(d, doc, mem) == [docs EXCEPT ![d] = [doc EXCEPT !.content = mem]]

\* ------------------------------------------------------ create_segment
create_segment(d, idx, s, e, text, title, author, parent, getOk, setOk) ==
  /\ pc = Idle
  /\ nextId <= MaxId
  /\ IF d \notin DOMAIN docs
       THEN /\ last' = Failed("create", d, "404")
            /\ UNCHANGED <<docs, segs, cache, nextId, pc>>
       ELSE
         LET r == get_document_with_cache(docs[d].content, cache[d], getOk, setOk)
             bad == ~TextTruthy(text) /\ (s < 0 \/ e > Len(r.content))
             segment_text == IF TextTruthy(text) THEN text
                             ELSE PySlice(r.content, s, e)
             db_segment == update_annotation_status(
                 OutlinerSegment(d, segment_text, idx, s, e, title, author,
                                 NoVal, NoVal, parent, "unchecked"))
         IN /\ cache' = [cache EXCEPT ![d] = r.entry]
            /\ pc' = pc
            /\ IF bad
                 THEN /\ last' = [Failed("create", d, "400") EXCEPT
                                    !.ostart = s, !.oend = e, !.otext = text]
                      /\ UNCHANGED <<docs, segs, nextId>>
                 ELSE /\ segs' = segs @@ (nextId :> db_segment)
                      /\ docs' = CommitDoc(d, update_document_progress(docs[d], segs, d),
                                           r.content)
                      /\ nextId' = nextId + 1
                      /\ last' = [Done("create", d) EXCEPT
                                    !.a = nextId, !.ostart = s, !.oend = e,
                                    !.otext = text]

\* ------------------------------------------------- GET /documents/{id}
\* get_document of the router: get_document of the controller; when the
\* document has no segment, create_segment(0, 0, len(content)) with the text
\* taken from the content, and get_document of the controller once more;
\* get_db commits when the handler returns.  Each of the three calls reads
\* the content through the cache.
get_document(d, getOk1, setOk1, getOk2, setOk2, getOk3, setOk3) ==
  /\ pc = Idle
  /\ IF d \notin DOMAIN docs
       THEN /\ last' = Failed("get", d, "404")
            /\ UNCHANGED <<docs, segs, cache, nextId, pc>>
       ELSE
         LET r1 == get_document_with_cache(docs[d].content, cache[d], getOk1, setOk1)
             segments_exist == SegsOf(segs, d) # {}
             text_length == Len(r1.content)
             r2 == get_document_with_cache(r1.content, r1.entry, getOk2, setOk2)
             bad == text_length > Len(r2.content)
             db_segment == update_annotation_status(
                 OutlinerSegment(d, PySlice(r2.content, 0, text_length), 0, 0,
                                 text_length, NoVal, NoVal, NoVal, NoVal, NoVal,
                                 "unchecked"))
             r3 == get_document_with_cache(r2.content, r2.entry, getOk3, setOk3)
         IN /\ pc' = pc
            /\ IF segments_exist
                 THEN /\ cache' = [cache EXCEPT ![d] = r1.entry]
                      /\ docs' = CommitDoc(d, docs[d], r1.content)
                      /\ last' = Done("get", d)
                      /\ UNCHANGED <<segs, nextId>>
                 ELSE /\ nextId <= MaxId
                      /\ IF bad
                           THEN /\ cache' = [cache EXCEPT ![d] = r2.entry]
                                /\ last' = Failed("get", d, "400")
                                /\ UNCHANGED <<docs, segs, nextId>>
                           ELSE /\ cache' = [cache EXCEPT ![d] = r3.entry]
                                /\ segs' = segs @@ (nextId :> db_segment)
                                /\ docs' = CommitDoc(d,
                                      update_document_progress(docs[d], segs, d),
                                      r3.content)
                                /\ nextId' = nextId + 1
                                /\ last' = [Done("get", d) EXCEPT !.a = nextId]

\* ------------------------------------------------------ update_segment
\* The controller changes the object and returns; get_db commits.  A status
\* outside the accepted list raises after the other fields were assigned in
\* memory, and get_db rolls the session back.
\* incremental_update_document_progress of outliner_utils loads the document
\* and returns without changing it.
incremental_update_document_progress(doc, total_delta, annotated_delta) == doc

get_annotation_status_delta(old, new) ==
  IF old /\ ~new THEN -1 ELSE IF ~old /\ new THEN 1 ELSE 0

ApplyUpdate(seg, u) ==
  LET s1 == IF u.text # NoText THEN [seg EXCEPT !.text = u.text] ELSE seg
      s2 == IF u.title # NoVal THEN [s1 EXCEPT !.title = u.title] ELSE s1
      s3 == IF u.author # NoVal THEN [s2 EXCEPT !.author = u.author] ELSE s2
      s4 == IF u.title_bdrc_id # NoVal
              THEN [s3 EXCEPT !.title_bdrc_id = u.title_bdrc_id] ELSE s3
      s5 == IF u.author_bdrc_id # NoVal
              THEN [s4 EXCEPT !.author_bdrc_id = u.author_bdrc_id] ELSE s4
      s6 == IF u.parent_segment_id # NoVal
              THEN [s5 EXCEPT !.parent_segment_id = u.parent_segment_id] ELSE s5
  IN s6

\* get_db when the handler raises: db.rollback() discards the assignments
\* made to the objects of the session, the store keeps its rows.
get_db_rollback_flushed(stored, pending) == pending
get_db_rollback(stored, pending) == stored

\* get_comments_list: the entries when the column holds a non-empty list,
\* [] for null and for any other value (the branch that would wrap a string
\* is an `except` that nothing raises into).
get_comments_list(segment) ==
  IF segment.comment.kind = "list" THEN segment.comment.items ELSE <<>>

new_comment(content, username, now) ==
  [content |-> content, username |-> username, timestamp |-> now]

\* the comment assignments of update_segment; now is datetime.utcnow()
UpdateComment(seg, u, now) ==
  LET c1 == IF u.comment # NoVal THEN [seg EXCEPT !.comment = StrComment(u.comment)]
            ELSE seg
  IN IF u.comment_content # NoVal /\ u.comment_username # NoVal
       THEN [c1 EXCEPT !.comment =
               ListComment(Append(get_comments_list(c1),
                                  new_comment(u.comment_content,
                                              u.comment_username, now)))]
       ELSE c1

update_segment(id, u, now) ==
  /\ pc = Idle
  /\ UNCHANGED <<cache, nextId, pc>>
  /\ IF id \notin DOMAIN segs
       THEN /\ last' = Failed("update", "-", "404")
            /\ UNCHANGED <<docs, segs>>
       ELSE
         LET d == segs[id].document_id
             old_is_annotated == segs[id].is_annotated
             s6 == UpdateComment(ApplyUpdate(segs[id], u), u, now)
             badStatus == u.status # NoVal
                          /\ u.status \notin {"checked", "unchecked", "approved"}
             s7 == IF u.status # NoVal THEN [s6 EXCEPT !.status = u.status] ELSE s6
             segment == update_annotation_status(s7)
             annotated_delta ==
               get_annotation_status_delta(old_is_annotated, segment.is_annotated)
         IN IF badStatus
              THEN /\ last' = [Failed("update", d, "400") EXCEPT !.a = id]
                   /\ segs' = get_db_rollback(segs, [segs EXCEPT ![id] = s6])
                   /\ docs' = docs
              ELSE /\ segs' = [segs EXCEPT ![id] = segment]
                   /\ docs' = [docs EXCEPT ![d] =
                        IF annotated_delta # 0
                          THEN incremental_update_document_progress(docs[d], 0,
                                                                   annotated_delta)
                          ELSE docs[d]]
                   /\ last' = [Done("update", d) EXCEPT !.a = id]

\* ------------------------------------------------ update_segment_status
update_segment_status(segment_id, status) ==
  /\ pc = Idle
  /\ UNCHANGED <<cache, nextId, pc>>
  /\ IF status \notin {"checked", "unchecked", "approved"}
       THEN /\ last' = [Failed("update_status", "-", "400") EXCEPT !.a = segment_id]
            /\ UNCHANGED <<docs, segs>>
       ELSE IF segment_id \notin DOMAIN segs
         THEN /\ last' = [Failed("update_status", "-", "404") EXCEPT !.a = segment_id]
              /\ UNCHANGED <<docs, segs>>
         ELSE LET d == segs[segment_id].document_id
              IN /\ segs' = [segs EXCEPT ![segment_id].status = status]
                 /\ docs' = [docs EXCEPT ![d] = update_document_progress(docs[d], segs, d)]
                 /\ last' = [Done("update_status", d) EXCEPT !.a = segment_id]

\* ------------------------------------------------ update_segments_bulk
\* The rows after the loop over zip(segment_ids, segment_updates): an id
\* that is not stored is skipped; a status other than checked / unchecked
\* makes the loop `continue` after the other fields have been assigned and
\* before update_annotation_status().
RECURSIVE BulkPutRows(_, _, _)
BulkPutRows(S, segment_ids, segment_updates) ==
  IF segment_ids = <<>> \/ segment_updates = <<>> THEN S
  ELSE
    LET segment_id == Head(segment_ids)
        segment_update == Head(segment_updates)
        s6 == ApplyUpdate(S[segment_id], segment_update)
        skip == segment_update.status # NoVal
                /\ segment_update.status \notin {"checked", "unchecked"}
        s7 == IF segment_update.status # NoVal
                THEN [s6 EXCEPT !.status = segment_update.status] ELSE s6
        S1 == IF segment_id \notin DOMAIN S THEN S
              ELSE IF skip THEN [S EXCEPT ![segment_id] = s6]
              ELSE [S EXCEPT ![segment_id] = update_annotation_status(s7)]
    IN BulkPutRows(S1, Tail(segment_ids), Tail(segment_updates))

\* PUT /segments/bulk: the COUNT queries of update_document_progress run
\* before anything is flushed; one commit at the end.
update_segments_bulk(segment_updates, segment_ids) ==
  /\ pc = Idle
  /\ UNCHANGED <<cache, nextId, pc>>
  /\ IF Len(segment_updates) # Len(segment_ids)
       THEN /\ last' = Failed("bulk_update", "-", "400")
            /\ UNCHANGED <<docs, segs>>
       ELSE
         LET found == {segment_ids[k] : k \in DOMAIN segment_ids} \cap DOMAIN segs
             document_ids == {segs[i].document_id : i \in found}
         IN /\ segs' = BulkPutRows(segs, segment_ids, segment_updates)
            /\ docs' = [d \in DOMAIN docs |->
                          IF d \in document_ids
                            THEN update_document_progress(docs[d], segs, d)
                            ELSE docs[d]]
            /\ last' = [Done("bulk_update", "-") EXCEPT !.ids = found]

\* ------------------------------------------------------- split_segment
\* The two rows split_segment leaves for segment `id` of `S` at position p;
\* `newid` is the uuid of the second half.  Rows with a greater index in the
\* store are shifted by one.
SplitRows(S, id, newid, p) ==
  LET segment == S[id]
      old_span_end == segment.span_end
      new_first_span_end == segment.span_start + p
      first == update_annotation_status(
                 [segment EXCEPT !.text = SubSeq(segment.text, 1, p),
                                 !.span_end = new_first_span_end])
      new_segment ==
        OutlinerSegment(segment.document_id,
                        SubSeq(segment.text, p + 1, Len(segment.text)),
                        segment.segment_index + 1, new_first_span_end,
                        old_span_end, NoVal, NoVal, NoVal, NoVal,
                        segment.parent_segment_id,
                        IF Truthy(segment.status) THEN segment.status
                        ELSE "unchecked")
      shifted == [i \in DOMAIN S |->
                    IF i = id THEN first
                    ELSE IF S[i].document_id = segment.document_id
                            /\ S[i].segment_index > segment.segment_index
                      THEN [S[i] EXCEPT !.segment_index = @ + 1]
                      ELSE S[i]]
  IN shifted @@ (newid :> new_segment)

SplitBad(segment, p) ==
  \/ p <= 0
  \/ p >= Len(segment.text)
  \/ segment.span_start + p < segment.span_start
  \/ segment.span_start + p > segment.span_end

split_segment(id, p, document_id, getOk, setOk) ==
  /\ pc = Idle
  /\ nextId <= MaxId
  /\ pc' = pc
  /\ IF id \in DOMAIN segs
       THEN
         LET d == segs[id].document_id
         IN /\ cache' = cache
            /\ IF SplitBad(segs[id], p)
                 THEN /\ last' = Failed("split", d, "400")
                      /\ UNCHANGED <<docs, segs, nextId>>
                 ELSE /\ segs' = SplitRows(segs, id, nextId, p)
                      /\ docs' = [docs EXCEPT ![d] =
                                    update_document_progress(docs[d], segs, d)]
                      /\ nextId' = nextId + 1
                      /\ last' = [Done("split", d) EXCEPT
                                    !.a = id, !.b = nextId, !.p = p,
                                    !.otext = segs[id].text,
                                    !.ostart = segs[id].span_start,
                                    !.oend = segs[id].span_end,
                                    !.ototal = docs[d].total_segments]
       ELSE IF document_id = NoVal \/ document_id \notin DOMAIN docs
         THEN /\ last' = Failed("split", document_id, "404")
              /\ UNCHANGED <<docs, segs, cache, nextId>>
         ELSE
           LET d == document_id
               r == get_document_with_cache(docs[d].content, cache[d], getOk, setOk)
               initial_segment == update_annotation_status(
                   OutlinerSegment(d, r.content, 0, 0, Len(r.content), NoVal,
                                   NoVal, NoVal, NoVal, NoVal, "unchecked"))
               \* state of the store after the commit of the initial segment
               S1 == segs @@ (nextId :> initial_segment)
               D1 == [docs[d] EXCEPT !.content = r.content]
           IN /\ cache' = [cache EXCEPT ![d] = r.entry]
              /\ IF SegsOf(segs, d) # {}
                   THEN /\ last' = Failed("split", d, "404")
                        /\ UNCHANGED <<docs, segs, nextId>>
                   ELSE IF r.content = <<>>
                     THEN /\ last' = Failed("split", d, "400")
                          /\ UNCHANGED <<docs, segs, nextId>>
                     ELSE IF SplitBad(initial_segment, p)
                       THEN /\ segs' = S1
                            /\ docs' = [docs EXCEPT ![d] = D1]
                            /\ nextId' = nextId + 1
                            /\ last' = [Failed("split", d, "400") EXCEPT !.b = nextId]
                       ELSE /\ nextId + 1 <= MaxId
                            /\ segs' = SplitRows(S1, nextId, nextId + 1, p)
                            /\ docs' = [docs EXCEPT ![d] =
                                          update_document_progress(D1, S1, d)]
                            /\ nextId' = nextId + 2
                            /\ last' = [Done("split", d) EXCEPT
                                          !.a = nextId, !.b = nextId + 1, !.p = p,
                                          !.otext = initial_segment.text,
                                          !.ostart = 0,
                                          !.oend = initial_segment.span_end,
                                          !.ototal = docs[d].total_segments]

\* ------------------------------------------------------ merge_segments
FirstTruthy(vals) ==
  IF \E i \in 1..Len(vals) : Truthy(vals[i])
    THEN vals[Min({i \in 1..Len(vals) : Truthy(vals[i])})]
    ELSE NoVal

RECURSIVE JoinTexts(_)
JoinTexts(texts) ==
  IF texts = <<>> THEN <<>> ELSE Head(texts) \o JoinTexts(Tail(texts))

MergeRows_unshifted(S, segments) ==
  [i \in DOMAIN S \ {segments[k] : k \in 2..Len(segments)} |->
     IF i = segments[1]
       THEN [S[i] EXCEPT !.span_end = S[segments[Len(segments)]].span_end]
       ELSE S[i]]

\* The rows after merging `segments` (rows of S listed in index order).
MergeRows(S, segments) ==
  LET n == Len(segments)
      first_id == segments[1]
      document_id == S[first_id].document_id
      first_segment == update_annotation_status(
        [S[first_id] EXCEPT
           !.text = JoinTexts([i \in 1..n |-> S[segments[i]].text]),
           !.span_end = S[segments[n]].span_end,
           !.title = FirstTruthy([i \in 1..n |-> S[segments[i]].title]),
           !.author = FirstTruthy([i \in 1..n |-> S[segments[i]].author]),
           !.title_bdrc_id = FirstTruthy([i \in 1..n |-> S[segments[i]].title_bdrc_id]),
           !.author_bdrc_id = FirstTruthy([i \in 1..n |-> S[segments[i]].author_bdrc_id])])
      others == {segments[i] : i \in 2..n}
      shift_amount == n - 1
  IN [i \in DOMAIN S \ others |->
        IF i = first_id THEN first_segment
        ELSE IF S[i].document_id = document_id
                /\ S[i].segment_index > S[first_id].segment_index
          THEN [S[i] EXCEPT !.segment_index = @ - shift_amount]
          ELSE S[i]]

Range(f) == {f[i] : i \in DOMAIN f}

\* all(seg.document_id == document_id for seg in segments)
SameDocument_unchecked(S, found, document_id) == TRUE
SameDocument(S, found, document_id) ==
  \A i \in found : S[i].document_id = document_id

merge_segments(segment_ids) ==
  /\ pc = Idle
  /\ UNCHANGED <<cache, nextId, pc>>
  /\ LET found == Range(segment_ids) \cap DOMAIN segs
     IN IF Len(segment_ids) < 2
          THEN /\ last' = Failed("merge", "-", "400")
               /\ UNCHANGED <<docs, segs>>
          ELSE IF Cardinality(found) # Len(segment_ids)
            THEN /\ last' = Failed("merge", "-", "404")
                 /\ UNCHANGED <<docs, segs>>
            ELSE \E segments \in OrderedByIndex(segs, found) :
                   LET document_id == segs[segments[1]].document_id
                   IN IF ~SameDocument(segs, found, document_id)
                        THEN /\ last' = Failed("merge", document_id, "400")
                             /\ UNCHANGED <<docs, segs>>
                        ELSE /\ segs' = MergeRows(segs, segments)
                             /\ docs' = [docs EXCEPT ![document_id] =
                                  update_document_progress(docs[document_id], segs,
                                                           document_id)]
                             /\ last' = [Done("merge", document_id) EXCEPT
                                  !.a = segments[1], !.ids = found,
                                  !.rt = (last.op = "split" /\ last.ok
                                          /\ segment_ids \in {<<last.a, last.b>>,
                                                              <<last.b, last.a>>}),
                                  !.otext = last.otext, !.ostart = last.ostart,
                                  !.oend = last.oend, !.ototal = last.ototal]

\* ------------------------------------------------------ delete_segment
delete_segment(id) ==
  /\ pc = Idle
  /\ UNCHANGED <<cache, nextId, pc>>
  /\ IF id \notin DOMAIN segs
       THEN /\ last' = Failed("delete", "-", "404")
            /\ UNCHANGED <<docs, segs>>
       ELSE
         LET document_id == segs[id].document_id
             segment_index == segs[id].segment_index
         IN /\ segs' = [i \in DOMAIN segs \ {id} |->
                          IF segs[i].document_id = document_id
                             /\ segs[i].segment_index > segment_index
                            THEN [segs[i] EXCEPT !.segment_index = @ - 1]
                            ELSE segs[i]]
            /\ docs' = [docs EXCEPT ![document_id] =
                          update_document_progress(docs[document_id], segs, document_id)]
            /\ last' = [Done("delete", document_id) EXCEPT !.a = id]

\* ------------------------------------------------------- the comment log
\* POST /segments/{id}/comment
add_segment_comment(segment_id, content, username, now) ==
  /\ pc = Idle
  /\ UNCHANGED <<docs, cache, nextId, pc>>
  /\ IF segment_id \notin DOMAIN segs
       THEN /\ last' = Failed("comment_add", "-", "404")
            /\ UNCHANGED segs
       ELSE
         LET existing_comments ==
               Append(get_comments_list(segs[segment_id]),
                      new_comment(content, username, now))
         IN /\ Len(existing_comments) <= MaxComments
            /\ segs' = [segs EXCEPT ![segment_id].comment =
                          ListComment(existing_comments)]
            /\ last' = [Done("comment_add", segs[segment_id].document_id)
                          EXCEPT !.a = segment_id]

\* add_segment_comment of two handlers at once, each with its own session:
\* the SELECT with the list built from it, then the commit.  pc.c holds the
\* handlers that have read and not yet committed.
add_segment_comment_read(segment_id, content, username, now) ==
  /\ pc = Idle \/ (pc.at = "comment_add" /\ Len(pc.c) < 2)
  /\ UNCHANGED <<docs, segs, cache, nextId>>
  /\ IF segment_id \notin DOMAIN segs
       THEN /\ last' = Failed("comment_add", "-", "404")
            /\ pc' = pc
       ELSE
         LET existing_comments ==
               Append(get_comments_list(segs[segment_id]),
                      new_comment(content, username, now))
         IN /\ Len(existing_comments) <= MaxComments
            /\ pc' = [at |-> "comment_add", d |-> "-",
                      c |-> Append(pc.c, [segment_id |-> segment_id,
                                          existing_comments |-> existing_comments])]
            /\ last' = [Done("comment_add_read", segs[segment_id].document_id)
                          EXCEPT !.a = segment_id]

\* the value that the UPDATE of the commit writes: the list of the handler
CommentWrite_reread(stored, existing_comments) ==
  Append(stored, existing_comments[Len(existing_comments)])
CommentWrite(stored, existing_comments) == existing_comments

\* db.commit() of handler k; rt: the stored list is no longer the one the
\* handler read
add_segment_comment_commit(k) ==
  /\ pc.at = "comment_add"
  /\ k \in DOMAIN pc.c
  /\ UNCHANGED <<docs, cache, nextId>>
  /\ LET segment_id == pc.c[k].segment_id
         existing_comments == pc.c[k].existing_comments
         stored == get_comments_list(segs[segment_id])
         rest == [j \in 1..(Len(pc.c) - 1) |->
                    IF j < k THEN pc.c[j] ELSE pc.c[j + 1]]
     IN /\ segs' = [segs EXCEPT ![segment_id].comment =
                      ListComment(CommentWrite(stored, existing_comments))]
        /\ pc' = IF rest = <<>> THEN Idle ELSE [pc EXCEPT !.c = rest]
        /\ last' = [Done("comment_add_commit", segs[segment_id].document_id)
                      EXCEPT !.a = segment_id, !.b = k,
                             !.rt = (stored # SubSeq(existing_comments, 1,
                                                     Len(existing_comments) - 1))]

\* PUT /segments/{id}/comment/{comment_index}
update_segment_comment(segment_id, comment_index, content, now) ==
  /\ pc = Idle
  /\ UNCHANGED <<docs, cache, nextId, pc>>
  /\ IF segment_id \notin DOMAIN segs
       THEN /\ last' = Failed("comment_update", "-", "404")
            /\ UNCHANGED segs
       ELSE
         LET comments_list == get_comments_list(segs[segment_id])
             d == segs[segment_id].document_id
         IN IF comment_index < 0 \/ comment_index >= Len(comments_list)
              THEN /\ last' = [Failed("comment_update", d, "404_comment") EXCEPT
                                 !.a = segment_id, !.p = comment_index]
                   /\ UNCHANGED segs
              ELSE /\ segs' = [segs EXCEPT ![segment_id].comment =
                                 ListComment([comments_list EXCEPT
                                    ![comment_index + 1].content = content,
                                    ![comment_index + 1].timestamp = now])]
                   /\ last' = [Done("comment_update", d) EXCEPT
                                 !.a = segment_id, !.p = comment_index]

\* comments_list.pop(comment_index) for an index within the list
Pop_last(comments_list, comment_index) ==
  SubSeq(comments_list, 1, Len(comments_list) - 1)
Pop(comments_list, comment_index) ==
  [k \in 1..(Len(comments_list) - 1) |->
     IF k <= comment_index THEN comments_list[k] ELSE comments_list[k + 1]]

\* DELETE /segments/{id}/comment/{comment_index}
delete_segment_comment(segment_id, comment_index) ==
  /\ pc = Idle
  /\ UNCHANGED <<docs, cache, nextId, pc>>
  /\ IF segment_id \notin DOMAIN segs
       THEN /\ last' = Failed("comment_delete", "-", "404")
            /\ UNCHANGED segs
       ELSE
         LET comments_list == get_comments_list(segs[segment_id])
             d == segs[segment_id].document_id
             popped == Pop(comments_list, comment_index)
         IN IF comment_index < 0 \/ comment_index >= Len(comments_list)
              THEN /\ last' = [Failed("comment_delete", d, "404_comment") EXCEPT
                                 !.a = segment_id, !.p = comment_index]
                   /\ UNCHANGED segs
              ELSE /\ segs' = [segs EXCEPT ![segment_id].comment =
                                 IF Len(popped) = 0 THEN NoComment
                                 ELSE ListComment(popped)]
                   /\ last' = [Done("comment_delete", d) EXCEPT
                                 !.a = segment_id, !.p = comment_index]

\* ------------------------------------------------------ reset_segments
\* Query.delete() is executed at once, so the COUNT queries of
\* update_document_progress see the rows gone.
reset_segments(d) ==
  /\ pc = Idle
  /\ UNCHANGED <<cache, nextId, pc>>
  /\ IF d \notin DOMAIN docs
       THEN /\ last' = Failed("reset", d, "404")
            /\ UNCHANGED <<docs, segs>>
       ELSE /\ segs' = Without(segs, SegsOf(segs, d))
            /\ docs' = [docs EXCEPT ![d] = update_document_progress(docs[d], segs', d)]
            /\ last' = Done("reset", d)

\* --------------------------------------------- bulk_segment_operations
\* Update phase of bulk applied to one row: whitelisted fields, then the
\* status (only 'checked' and 'unchecked' pass here), span and index.
BulkApplyUpdate(seg, u) ==
  LET s6 == ApplyUpdate(seg, u)
      s7 == IF u.status # NoVal THEN [s6 EXCEPT !.status = u.status] ELSE s6
      s8 == IF u.span_start # NoInt THEN [s7 EXCEPT !.span_start = u.span_start] ELSE s7
      s9 == IF u.span_end # NoInt THEN [s8 EXCEPT !.span_end = u.span_end] ELSE s8
      s10 == IF u.segment_index # NoInt
               THEN [s9 EXCEPT !.segment_index = u.segment_index] ELSE s9
  IN update_annotation_status(s10)

BulkStatusBad(u) == u.status # NoVal /\ u.status \notin {"checked", "unchecked"}

\* max(segment_index) of the rows in the store, `or -1`
BulkMaxIndex(S, d) ==
  IF SegsOf(S, d) = {} THEN -1
  ELSE LET m == Max({S[i].segment_index : i \in SegsOf(S, d)})
       IN IF m = 0 THEN -1 ELSE m

BulkCreateBad(c, content) ==
  ~TextTruthy(c.text) /\ (c.span_start < 0 \/ c.span_end > Len(content))

BulkNewSegment(d, c, idx, max_index, content) ==
  update_annotation_status(
    OutlinerSegment(d,
      IF TextTruthy(c.text) THEN c.text
      ELSE PySlice(content, c.span_start, c.span_end),
      IF c.segment_index # NoInt THEN c.segment_index ELSE max_index + idx + 1,
      c.span_start, c.span_end, c.title, c.author, NoVal, NoVal,
      NoVal, "unchecked"))

\* the update phase without its check of the ids that were found
BulkUpdateMissing_unchecked(S, d, update) == {}

\* missing ids of the update phase: the filter runs on the rows of the store
BulkUpdateMissing(S, d, update) == DOMAIN update \ SegsOf(S, d)

\* create: sequence of create items; update: function id -> update item
\* (the dict built from the list); delete: set of ids.
bulk_segment_operations(d, create, update, delete, getOk, setOk) ==
  /\ pc = Idle
  /\ pc' = pc
  /\ nextId + Len(create) - 1 <= MaxId
  /\ IF d \notin DOMAIN docs
       THEN /\ last' = Failed("bulk", d, "404")
            /\ UNCHANGED <<docs, segs, cache, nextId>>
       ELSE
         LET r == get_document_with_cache(docs[d].content, cache[d], getOk, setOk)
             segments_to_delete == delete \cap SegsOf(segs, d)
             delMissing == Cardinality(segments_to_delete) # Cardinality(delete)
             max_deleted_index ==
               IF segments_to_delete = {} THEN -1
               ELSE Max({segs[i].segment_index : i \in segments_to_delete})
             shift_amount == Cardinality(segments_to_delete)
             afterDelete ==
               [i \in DOMAIN segs |->
                  IF max_deleted_index >= 0 /\ segs[i].document_id = d
                     /\ segs[i].segment_index > max_deleted_index
                    THEN [segs[i] EXCEPT !.segment_index = @ - shift_amount]
                    ELSE segs[i]]
             updMissing == BulkUpdateMissing(segs, d, update) # {}
             updBad == \E i \in DOMAIN update : BulkStatusBad(update[i])
             afterUpdate ==
               [i \in DOMAIN segs |->
                  IF i \in DOMAIN update THEN BulkApplyUpdate(afterDelete[i], update[i])
                  ELSE afterDelete[i]]
             max_index == BulkMaxIndex(segs, d)
             createBad == \E k \in 1..Len(create) : BulkCreateBad(create[k], r.content)
             created == [k \in 1..Len(create) |->
                           BulkNewSegment(d, create[k], k - 1, max_index, r.content)]
             newRows == [i \in {nextId + k - 1 : k \in 1..Len(create)} |->
                           created[i - nextId + 1]]
             err == IF delMissing THEN "404_delete"
                    ELSE IF updMissing THEN "404_update"
                    ELSE IF updBad THEN "400_status"
                    ELSE IF createBad THEN "400_span"
                    ELSE ""
         IN /\ cache' = [cache EXCEPT ![d] = r.entry]
            /\ IF err # ""
                 THEN /\ last' = [Failed("bulk", d, err) EXCEPT
                                    !.n = IF delMissing THEN 0
                                          ELSE Cardinality(segments_to_delete),
                                    !.p = Cardinality(DOMAIN update \ SegsOf(segs, d))]
                      /\ UNCHANGED <<docs, segs, nextId>>
                 ELSE /\ segs' = Without(afterUpdate, segments_to_delete) @@ newRows
                      /\ docs' = CommitDoc(d, update_document_progress(docs[d], segs, d),
                                           r.content)
                      /\ nextId' = nextId + Len(create)
                      \* db.refresh of an updated row that the same batch deleted
                      \* raises after the commit
                      /\ last' = [NoLast EXCEPT
                           !.op = "bulk", !.d = d, !.n = Cardinality(delete),
                           !.ok = (DOMAIN update \cap delete = {}),
                           !.err = IF DOMAIN update \cap delete = {} THEN ""
                                   ELSE "500_refresh",
                           !.a = Len(create), !.b = Cardinality(DOMAIN update),
                           !.p = Cardinality(DOMAIN update \ SegsOf(segs, d)),
                           !.ids = {nextId + k - 1 : k \in
                                      {j \in 1..Len(create) :
                                         create[j].segment_index = NoInt}}]

\* ---------------------------------------------------- boundary detector
RECURSIVE SortedSeq(_)
SortedSeq(S) == IF S = {} THEN <<>> ELSE <<Min(S)>> \o SortedSeq(S \ {Min(S)})

\* start positions (0-based) of the occurrences of pat in content
Occurrences(content, pat) ==
  {i \in 0..(Len(content) - Len(pat)) : SubSeq(content, i + 1, i + Len(pat)) = pat}

\* The string markers and the regex that starts with the opening marker all
\* match where <<Y,D,D>> starts.  The header rules (Chapter, Section, CJK
\* numerals) and the Tibetan-line rule need characters outside Chars and
\* match nowhere in the contents explored here.
split_markers == << <<"Y", "D", "D", "S", " ", "S">>, <<"Y", "D", "D">> >>

all_positions(content) ==
  UNION {Occurrences(content, split_markers[k]) : k \in DOMAIN split_markers}

PostProcess_unfiltered(positions, text_length) ==
  SortedSeq(IF positions = {} \/ Min(positions) # 0
              THEN positions \cup {0} ELSE positions)

\* insert 0 if the first position is not 0, sorted(set(..)), drop > len
PostProcess(positions, text_length) ==
  LET withZero == IF positions = {} \/ Min(positions) # 0
                    THEN positions \cup {0} ELSE positions
  IN SortedSeq({pos \in withZero : pos <= text_length})

\* detect_text_boundaries_rule_based: <<>> stands for None
detect_text_boundaries_rule_based(content) ==
  IF all_positions(content) # {}
    THEN PostProcess(all_positions(content), Len(content))
    ELSE <<>>

\* detect_text_endings_ai on the list `raw` of integers the classifier gave
detect_text_endings_ai(content, raw) == PostProcess(raw, Len(content))

\* create_segments_from_positions: the rows for starting_positions
PositionRows(d, content, starting_positions) ==
  [idx \in 1..Len(starting_positions) |->
     LET start_pos == starting_positions[idx]
         end_pos == IF idx + 1 <= Len(starting_positions)
                      THEN starting_positions[idx + 1] ELSE Len(content)
     IN OutlinerSegment(d, PySlice(content, start_pos, end_pos), idx - 1,
                        start_pos, end_pos, NoVal, NoVal, NoVal, NoVal, NoVal,
                        "unchecked")]

\* POST /detect-text-endings: rule phase, classifier when the rule phase
\* found nothing, then bulk_insert_mappings (executed at once) and the
\* counters; aiOk = FALSE is a classifier call that fails.
segment_document(d, content, raw, aiOk) ==
  /\ pc = Idle
  /\ UNCHANGED <<cache, pc>>
  /\ IF d \notin DOMAIN docs
       THEN /\ last' = Failed("segment_document", d, "404")
            /\ UNCHANGED <<docs, segs, nextId>>
       ELSE
         LET rule_based_positions == detect_text_boundaries_rule_based(content)
             useAi == rule_based_positions = <<>>
             starting_positions == IF useAi THEN detect_text_endings_ai(content, raw)
                                   ELSE rule_based_positions
             rows == PositionRows(d, content, starting_positions)
             n == Len(rows)
         IN IF useAi /\ ~aiOk
              THEN /\ last' = Failed("segment_document", d, "500")
                   /\ UNCHANGED <<docs, segs, nextId>>
              ELSE /\ nextId + n - 1 <= MaxId
                   /\ segs' = segs @@ [i \in {nextId + k - 1 : k \in 1..n} |->
                                         rows[i - nextId + 1]]
                   /\ docs' = [docs EXCEPT ![d] =
                        [@ EXCEPT !.total_segments = n,
                                  !.annotated_segments = CountAnnotated(segs', d)]]
                   /\ nextId' = nextId + n
                   /\ last' = [Done("segment_document", d) EXCEPT
                                 !.a = n, !.b = IF useAi THEN 1 ELSE 0,
                                 !.ids = SegsOf(segs, d), !.otext = content,
                                 !.p = Len(docs[d].content)]

\* POST /detect-text-endings step by step.  The handler runs the rule phase
\* and, when it found nothing, calls client.models.generate_content: the
\* client is built from the API key alone and the call carries no deadline,
\* so the handler waits in the call until the classifier answers.
detect_text_endings_call(d, content) ==
  /\ pc = Idle
  /\ IF d \in DOMAIN docs /\ detect_text_boundaries_rule_based(content) = <<>>
       THEN /\ pc' = [at |-> "classifier", d |-> d, c |-> content]
            /\ last' = [Done("classifier_call", d) EXCEPT !.otext = content]
            /\ UNCHANGED <<docs, segs, cache, nextId>>
       ELSE segment_document(d, content, {}, TRUE)

\* the classifier answers with a list of integers or with an error
generate_content_response(raw, aiOk) ==
  /\ pc.at = "classifier"
  /\ aiOk => nextId + Len(detect_text_endings_ai(pc.c, raw)) - 1 <= MaxId
  /\ pc' = [at |-> "classifier_done", d |-> pc.d, c |-> pc.c, raw |-> raw,
            aiOk |-> aiOk]
  /\ UNCHANGED <<docs, segs, cache, nextId, last>>

\* the handler goes on after the call returned: the offsets are
\* post-processed, the rows inserted and the counters set, or the error of
\* the call becomes a 500
detect_text_endings_return ==
  /\ pc.at = "classifier_done"
  /\ pc' = Idle
  /\ UNCHANGED cache
  /\ LET d == pc.d
         content == pc.c
         starting_positions == detect_text_endings_ai(content, pc.raw)
         rows == PositionRows(d, content, starting_positions)
         n == Len(rows)
     IN IF ~pc.aiOk
          THEN /\ last' = Failed("segment_document", d, "500")
               /\ UNCHANGED <<docs, segs, nextId>>
          ELSE /\ nextId + n - 1 <= MaxId
               /\ segs' = segs @@ [i \in {nextId + k - 1 : k \in 1..n} |->
                                     rows[i - nextId + 1]]
               /\ docs' = [docs EXCEPT ![d] =
                    [@ EXCEPT !.total_segments = n,
                              !.annotated_segments = CountAnnotated(segs', d)]]
               /\ nextId' = nextId + n
               /\ last' = [Done("segment_document", d) EXCEPT
                             !.a = n, !.b = 1,
                             !.ids = SegsOf(segs, d), !.otext = content,
                             !.p = Len(docs[d].content)]

\* ------------------------------------------- segment_and_create_from_parent
\* The children that replace a parent with span [segment_start, segment_end)
\* and index parent_index: spans from the absolute positions, the last one
\* ending at segment_end, texts sliced from the document content.
ChildRows(d, content, absolute_positions, segment_end, parent_index) ==
  [idx \in 1..Len(absolute_positions) |->
     LET abs_start_pos == absolute_positions[idx]
         abs_end_pos == IF idx + 1 <= Len(absolute_positions)
                          THEN absolute_positions[idx + 1] ELSE segment_end
     IN OutlinerSegment(d, PySlice(content, abs_start_pos, abs_end_pos),
                        parent_index + idx - 1, abs_start_pos, abs_end_pos,
                        NoVal, NoVal, NoVal, NoVal, NoVal, "unchecked")]

\* content = NoText: no override.  raw, aiOk: the classifier's answer.
\* A rule phase without positions returns None, and len(None) raises a
\* TypeError that the handler turns into a 500 after db.rollback().
segment_and_create_from_parent(segment_id, content, raw, aiOk, getOk, setOk) ==
  /\ pc = Idle
  /\ pc' = pc
  /\ IF segment_id \notin DOMAIN segs
       THEN /\ last' = Failed("subdivide", "-", "404")
            /\ UNCHANGED <<docs, segs, cache, nextId>>
       ELSE
         LET parent_segment == segs[segment_id]
             document_id == parent_segment.document_id
             r == get_document_with_cache(docs[document_id].content,
                                          cache[document_id], getOk, setOk)
             segment_start == parent_segment.span_start
             segment_end == parent_segment.span_end
             segment_content == PySlice(r.content, segment_start, segment_end)
             content_to_segment == IF content # NoText THEN content
                                   ELSE segment_content
             rule_based_positions ==
               detect_text_boundaries_rule_based(content_to_segment)
             useAi == Len(rule_based_positions) = 1
             relative_positions ==
               IF useAi THEN detect_text_endings_ai(content_to_segment, raw)
               ELSE rule_based_positions
             absolute_positions ==
               [k \in 1..Len(relative_positions) |->
                  segment_start + relative_positions[k]]
             num_new_segments == Len(absolute_positions)
             parent_index == parent_segment.segment_index
             rows == ChildRows(document_id, r.content, absolute_positions,
                               segment_end, parent_index)
             shifted ==
               [i \in DOMAIN segs \ {segment_id} |->
                  IF segs[i].document_id = document_id
                     /\ segs[i].segment_index > parent_index
                    THEN [segs[i] EXCEPT !.segment_index = @ + (num_new_segments - 1)]
                    ELSE segs[i]]
             err == IF segment_start < 0 \/ segment_end > Len(r.content)
                      THEN "400_span"
                    ELSE IF segment_start >= segment_end THEN "400_empty"
                    ELSE IF rule_based_positions = <<>> THEN "500_none"
                    ELSE IF useAi /\ ~aiOk THEN "500_ai"
                    ELSE IF relative_positions[1] # 0 THEN "400_first"
                    ELSE ""
             rec == [NoLast EXCEPT
                       !.op = "subdivide", !.d = document_id, !.a = segment_id,
                       !.p = Len(rule_based_positions),
                       !.b = IF err \in {"", "500_ai", "400_first"} /\ useAi
                               THEN 1 ELSE 0,
                       !.otext = content, !.ostart = segment_start,
                       !.oend = segment_end, !.ototal = parent_index]
         IN /\ cache' = [cache EXCEPT ![document_id] = r.entry]
            /\ IF err # ""
                 THEN /\ last' = [rec EXCEPT !.ok = FALSE, !.err = err]
                      /\ UNCHANGED <<docs, segs, nextId>>
                 ELSE /\ nextId + num_new_segments - 1 <= MaxId
                      /\ segs' = shifted @@
                           [i \in {nextId + k - 1 : k \in 1..num_new_segments} |->
                              rows[i - nextId + 1]]
                      /\ docs' = CommitDoc(document_id,
                           incremental_update_document_progress(
                             docs[document_id], num_new_segments - 1,
                             IF parent_segment.is_annotated THEN -1 ELSE 0),
                           r.content)
                      /\ nextId' = nextId + num_new_segments
                      /\ last' = [rec EXCEPT
                           !.n = num_new_segments,
                           !.ids = {nextId + k - 1 : k \in 1..num_new_segments}]

\* ---------------------------------------------- update_document_content
\* db.commit(), then invalidate_document_content_cache, then
\* set_document_content_in_cache: three steps other requests can observe.
update_document_content_commit(d, c) ==
  /\ pc = Idle
  /\ UNCHANGED <<segs, cache, nextId>>
  /\ IF d \notin DOMAIN docs
       THEN /\ last' = Failed("update_content", d, "404")
            /\ UNCHANGED <<docs, pc>>
       ELSE /\ docs' = [docs EXCEPT ![d].content = c]
            /\ pc' = [at |-> "update_invalidate", d |-> d, c |-> c]
            /\ last' = [Done("update_content_commit", d) EXCEPT
                          !.otext = docs[d].content]

invalidate_document_content_cache(entry, ok) == IF ok THEN NoCache ELSE entry

set_document_content_in_cache(entry, content, ok) == IF ok THEN content ELSE entry

update_document_content_invalidate(ok) ==
  /\ pc.at = "update_invalidate"
  /\ cache' = [cache EXCEPT ![pc.d] = invalidate_document_content_cache(@, ok)]
  /\ pc' = [pc EXCEPT !.at = "update_set"]
  /\ UNCHANGED <<docs, segs, nextId, last>>

update_document_content_set(ok) ==
  /\ pc.at = "update_set"
  /\ cache' = [cache EXCEPT ![pc.d] = set_document_content_in_cache(@, pc.c, ok)]
  /\ pc' = Idle
  /\ last' = [Done("update_content", pc.d) EXCEPT !.otext = pc.c]
  /\ UNCHANGED <<docs, segs, nextId>>

\* ---------------------------- read-through racing update_document_content
\* GET /documents/{id} of a document that has segments and PUT
\* /documents/{id}/content of the same document, each running in its own
\* worker and advancing one store or cache operation at a time.  pc holds the
\* position of the writer (w), of the reader (r), the content the writer
\* sends (c), the content the reader loaded (mem) and whether a cache
\* operation of either request failed.  The two requests overlap when the
\* second starts before the first has finished.
InRace(d, c, w, r, mem, failed) ==
  [at |-> "race", d |-> d, c |-> c, w |-> w, r |-> r, mem |-> mem,
   failed |-> failed]

\* both requests returned, or one returned and the other never started
RaceOver(w, r) == {w, r} \subseteq {"idle", "done"}

RaceStep(d, c, w, r, mem, failed) ==
  /\ pc' = IF RaceOver(w, r) THEN Idle ELSE InRace(d, c, w, r, mem, failed)
  /\ last' = IF RaceOver(w, r)
               THEN [Done(IF w = "idle" THEN "get"
                          ELSE IF r = "idle" THEN "update_content"
                          ELSE "read_update_race", d)
                       EXCEPT !.otext = c, !.rt = failed]
               ELSE last

\* the reader: get_document_content_from_cache misses (no entry, or the
\* call failed)
read_through_get(d, getOk) ==
  /\ pc = Idle \/ (pc.at = "race" /\ pc.d = d /\ pc.r = "idle")
  /\ d \in DOMAIN docs
  /\ SegsOf(segs, d) # {}
  /\ (IF getOk THEN cache[d] ELSE NoCache) = NoCache
  /\ IF pc = Idle
       THEN RaceStep(d, <<>>, "idle", "load", <<>>, ~getOk)
       ELSE RaceStep(d, pc.c, pc.w, "load", <<>>, pc.failed \/ ~getOk)
  /\ UNCHANGED <<docs, segs, cache, nextId>>

\* the reader: db.query(OutlinerDocument)...first()
read_through_load ==
  /\ pc.at = "race" /\ pc.r = "load"
  /\ RaceStep(pc.d, pc.c, pc.w, "set", docs[pc.d].content, pc.failed)
  /\ UNCHANGED <<docs, segs, cache, nextId>>

\* the reader: set_document_content_in_cache with the loaded content; the
\* segments exist, so the handler returns and commits nothing
read_through_set(setOk) ==
  /\ pc.at = "race" /\ pc.r = "set"
  /\ cache' = [cache EXCEPT ![pc.d] =
                 set_document_content_in_cache(@, pc.mem, setOk)]
  /\ RaceStep(pc.d, pc.c, pc.w, "done", pc.mem, pc.failed \/ ~setOk)
  /\ UNCHANGED <<docs, segs, nextId>>

\* the writer: document.content = content; db.commit()
racing_update_commit(d, c) ==
  /\ pc = Idle \/ (pc.at = "race" /\ pc.d = d /\ pc.w = "idle")
  /\ UNCHANGED <<segs, cache, nextId>>
  /\ IF d \notin DOMAIN docs
       THEN /\ last' = Failed("update_content", d, "404")
            /\ UNCHANGED <<docs, pc>>
       ELSE /\ docs' = [docs EXCEPT ![d].content = c]
            /\ IF pc = Idle
                 THEN RaceStep(d, c, "invalidate", "idle", <<>>, FALSE)
                 ELSE RaceStep(d, c, "invalidate", pc.r, pc.mem, pc.failed)

\* the writer: invalidate_document_content_cache
racing_update_invalidate(ok) ==
  /\ pc.at = "race" /\ pc.w = "invalidate"
  /\ cache' = [cache EXCEPT ![pc.d] = invalidate_document_content_cache(@, ok)]
  /\ RaceStep(pc.d, pc.c, "set", pc.r, pc.mem, pc.failed \/ ~ok)
  /\ UNCHANGED <<docs, segs, nextId>>

\* the writer: set_document_content_in_cache with the content it committed
racing_update_set(ok) ==
  /\ pc.at = "race" /\ pc.w = "set"
  /\ cache' = [cache EXCEPT ![pc.d] =
                 set_document_content_in_cache(@, pc.c, ok)]
  /\ RaceStep(pc.d, pc.c, "done", pc.r, pc.mem, pc.failed \/ ~ok)
  /\ UNCHANGED <<docs, segs, nextId>>

\* the entry set with setex outlives its time to live
expire_document_content(d) ==
  /\ pc = Idle
  /\ cache[d] # NoCache
  /\ cache' = [cache EXCEPT ![d] = NoCache]
  /\ last' = Done("expire", d)
  /\ UNCHANGED <<docs, segs, nextId, pc>>

\* ------------------------------------------------------- upload_document
\* Characters of an uploaded text: a visible one, the space, and an ASCII
\* control character other than the newline (written "^").
IsNotControl(ch) == ch # "^"

\* re.sub(r'[\x00-\x09\x0B-\x1F\x7F]', '', text)
remove_escape_chars_except_newline(text) == SelectSeq(text, IsNotControl)

RECURSIVE lstrip(_)
lstrip(text) == IF text # <<>> /\ Head(text) = " " THEN lstrip(Tail(text)) ELSE text

RECURSIVE rstrip(_)
rstrip(text) ==
  IF text # <<>> /\ text[Len(text)] = " "
    THEN rstrip(SubSeq(text, 1, Len(text) - 1)) ELSE text

strip(text) == rstrip(lstrip(text))

\* upload_document followed by create_document; the new row gets the next
\* unused document id.  last.otext holds the file content and the content
\* field of the request.
upload_document(file_content, content, user_id, setOk) ==
  /\ pc = Idle
  /\ UNCHANGED <<segs, nextId, pc>>
  /\ LET from_file == IF TextTruthy(file_content)
                        THEN remove_escape_chars_except_newline(file_content)
                        ELSE NoText
         text_content == IF ~TextTruthy(from_file) /\ TextTruthy(content)
                           THEN content ELSE from_file
         request == <<file_content, content>>
     IN IF ~TextTruthy(text_content)
          THEN /\ last' = [Failed("upload", "-", "400_required") EXCEPT
                             !.otext = request]
               /\ UNCHANGED <<docs, cache>>
          ELSE IF Len(strip(text_content)) = 0
            THEN /\ last' = [Failed("upload", "-", "400_empty") EXCEPT
                               !.otext = request]
                 /\ UNCHANGED <<docs, cache>>
            ELSE /\ DOMAIN cache \ DOMAIN docs # {}
                 /\ LET id == CHOOSE d \in DOMAIN cache \ DOMAIN docs : TRUE
                    IN /\ docs' = (id :> OutlinerDocument(text_content, user_id)) @@ docs
                       /\ cache' = [cache EXCEPT ![id] =
                            set_document_content_in_cache(@, text_content, setOk)]
                       /\ last' = [Done("upload", id) EXCEPT !.otext = request]

\* ------------------------------------------------- update_document_status
valid_statuses == {"active", "completed", "deleted", "approved", "rejected"}

\* last.otext holds the status and the user_id of the call; last.rt says that
\* the document was given the status 'deleted' and has not been 'active'
\* since.
update_document_status(document_id, status, user_id) ==
  /\ pc = Idle
  /\ UNCHANGED <<segs, cache, nextId, pc>>
  /\ LET call == <<status, user_id>>
         err == IF status \notin valid_statuses THEN "400"
                ELSE IF document_id \notin DOMAIN docs THEN "404"
                ELSE IF docs[document_id].status = "deleted" /\ status = "active"
                  THEN IF ~Truthy(user_id) THEN "400_user"
                       ELSE IF docs[document_id].user_id # user_id THEN "403"
                       ELSE ""
                ELSE ""
     IN IF err # ""
          THEN /\ last' = [Failed("update_document_status", document_id, err)
                             EXCEPT !.otext = call, !.rt = last.rt]
               /\ UNCHANGED docs
          ELSE /\ docs' = [docs EXCEPT ![document_id].status = status]
               /\ last' = [Done("update_document_status", document_id) EXCEPT
                             !.otext = call,
                             !.rt = IF status = "deleted" THEN TRUE
                                    ELSE IF status = "active" THEN FALSE
                                    ELSE last.rt]

\* ------------------------------------------------------ delete_document
\* db.delete(document) cascades to the segments; the cache entry is
\* invalidated after the commit.
delete_document_commit(d) ==
  /\ pc = Idle
  /\ UNCHANGED <<cache, nextId>>
  /\ IF d \notin DOMAIN docs
       THEN /\ last' = Failed("delete_document", d, "404")
            /\ UNCHANGED <<docs, segs, pc>>
       ELSE /\ docs' = [x \in DOMAIN docs \ {d} |-> docs[x]]
            /\ segs' = Without(segs, SegsOf(segs, d))
            /\ pc' = [at |-> "delete_invalidate", d |-> d, c |-> docs[d].content]
            /\ last' = [Done("delete_document_commit", d) EXCEPT
                          !.otext = docs[d].content]

delete_document_invalidate(ok) ==
  /\ pc.at = "delete_invalidate"
  /\ cache' = [cache EXCEPT ![pc.d] = invalidate_document_content_cache(@, ok)]
  /\ pc' = Idle
  /\ last' = Done("delete_document", pc.d)
  /\ UNCHANGED <<docs, segs, nextId>>

\* ------------------------------------------------------- request inputs
\* outcomes of the redis GET / SETEX of one read-through: both succeed, the
\* GET fails, or both fail (a SETEX failure after a GET that hit is never
\* attempted, and after a GET that missed it equals the case "both fail")
CacheModes == {<<TRUE, TRUE>>, <<FALSE, TRUE>>, <<FALSE, FALSE>>}

GivenTexts == {NoText, <<"D", "Y">>}
AnyIds == 0..MaxId                 \* 0 is an id no segment ever has

CreateSpans == {<<0, 1>>, <<1, MaxLen>>, <<-1, 1>>, <<0, MaxLen + 1>>, <<1, 0>>}

NoUpdate == [text |-> NoText, title |-> NoVal, author |-> NoVal,
             title_bdrc_id |-> NoVal, author_bdrc_id |-> NoVal,
             parent_segment_id |-> NoVal, status |-> NoVal,
             span_start |-> NoInt, span_end |-> NoInt, segment_index |-> NoInt,
             comment |-> NoVal, comment_content |-> NoVal,
             comment_username |-> NoVal]

\* SegmentUpdateRequest payloads: a title, a status, a title with a status
\* that is not one of the three
UpdateItems ==
  {[NoUpdate EXCEPT !.title = "T1"], [NoUpdate EXCEPT !.status = "checked"],
   [NoUpdate EXCEPT !.title = "T2", !.status = "done"]}

\* items of BulkSegmentOperationsRequest.update
BulkUpdateItems ==
  {[NoUpdate EXCEPT !.title = "T1"], [NoUpdate EXCEPT !.status = "approved"]}

\* items of BulkSegmentOperationsRequest.create: a span whose text is taken
\* from the content, and a given text with an explicit index
BulkCreateItems ==
  {[text |-> NoText, segment_index |-> NoInt, span_start |-> 0, span_end |-> 1,
    title |-> NoVal, author |-> NoVal],
   [text |-> <<"D", "Y">>, segment_index |-> 0, span_start |-> 0,
    span_end |-> MaxLen + 1, title |-> NoVal, author |-> NoVal]}

SeqsUpTo(S, n) == UNION {[1..k -> S] : k \in 0..n}

\* the bulk requests explored: one list (at most two deletes), or a delete
\* together with an update and possibly a create
BulkRequests ==
  {[create |-> <<>>, update |-> << >>, delete |-> del] :
      del \in {x \in SUBSET AnyIds : Cardinality(x) <= 2}}
  \cup {[create |-> <<>>, update |-> [i \in {id} |-> u], delete |-> {}] :
          id \in AnyIds, u \in BulkUpdateItems}
  \cup {[create |-> c, update |-> << >>, delete |-> {}] :
          c \in SeqsUpTo(BulkCreateItems, MaxBulk)}
  \cup {[create |-> c, update |-> [i \in {pr[1]} |-> u], delete |-> {pr[2]}] :
          c \in SeqsUpTo({[text |-> NoText, segment_index |-> NoInt, span_start |-> 0,
                           span_end |-> 1, title |-> NoVal, author |-> NoVal]}, 1),
          pr \in {x \in AnyIds \X (AnyIds \ {0}) : x[1] \in {0, 1, x[2]}},
          u \in {[NoUpdate EXCEPT !.title = "T1"]}}

\* the offsets the classifier may answer with: at most two integers
RawOffsets == {x \in SUBSET (-1..(MaxLen + 1)) : Cardinality(x) <= 2}

GetDocument ==
  \E d \in DocIds, m1, m2, m3 \in CacheModes :
    get_document(d, m1[1], m1[2], m2[1], m2[2], m3[1], m3[2])

CreateSegment ==
  \E d \in DocIds, idx \in {0, 1}, sp \in CreateSpans, text \in GivenTexts,
     m \in CacheModes :
    create_segment(d, idx, sp[1], sp[2], text, NoVal, NoVal, NoVal, m[1], m[2])

\* values of datetime.utcnow()
Times == {1, 2}

UpdateSegment ==
  \E id \in AnyIds, u \in UpdateItems, now \in Times : update_segment(id, u, now)

\* items of BulkSegmentUpdate.segments: a title, or a title with the status
\* approved
BulkPutItems ==
  {[NoUpdate EXCEPT !.title = "T1"],
   [NoUpdate EXCEPT !.title = "T1", !.status = "approved"]}

UpdateSegmentsBulk ==
  \E segment_updates \in SeqsUpTo(BulkPutItems, 1),
     segment_ids \in SeqsUpTo(AnyIds, 1) :
    update_segments_bulk(segment_updates, segment_ids)

\* CommentAdd / CommentUpdate payloads and the comment fields of
\* SegmentUpdate: the deprecated string, or a content with a username
CommentContents == {"c1", "c2"}
Usernames == {"u1", "u2"}
CommentIndexes == -1..MaxComments

CommentUpdateItems ==
  {[NoUpdate EXCEPT !.comment = "old"],
   [NoUpdate EXCEPT !.comment_content = "c1", !.comment_username = "u1"]}

UpdateSegmentCommentField ==
  \E id \in AnyIds, u \in CommentUpdateItems, now \in Times :
    /\ id \in DOMAIN segs => Len(get_comments_list(segs[id])) < MaxComments
    /\ update_segment(id, u, now)

AddSegmentComment ==
  \E id \in AnyIds, content \in CommentContents, username \in Usernames,
     now \in Times : add_segment_comment(id, content, username, now)

\* the concurrent handlers carry comments of one user that differ in content
RaceUsernames == {"u1"}
RaceTimes == {1}

AddSegmentCommentRead ==
  \E id \in AnyIds, content \in CommentContents, username \in RaceUsernames,
     now \in RaceTimes : add_segment_comment_read(id, content, username, now)

AddSegmentCommentCommit == \E k \in 1..2 : add_segment_comment_commit(k)

UpdateSegmentComment ==
  \E id \in AnyIds, comment_index \in CommentIndexes,
     content \in CommentContents, now \in Times :
    update_segment_comment(id, comment_index, content, now)

DeleteSegmentComment ==
  \E id \in AnyIds, comment_index \in CommentIndexes :
    delete_segment_comment(id, comment_index)

SplitSegment ==
  \E id \in AnyIds, p \in 0..MaxLen, document_id \in DocIds \cup {NoVal},
     m \in CacheModes : split_segment(id, p, document_id, m[1], m[2])

MergeSegments == \E ids \in SeqsUpTo(AnyIds, 3) : merge_segments(ids)

DeleteSegment == \E id \in AnyIds : delete_segment(id)

ResetSegments == \E d \in DocIds : reset_segments(d)

\* redis answers here; its failures are explored with the other endpoints
BulkSegmentOperations ==
  \E d \in DocIds, req \in BulkRequests :
    bulk_segment_operations(d, req.create, req.update, req.delete, TRUE, TRUE)

RaceContents == {<<"Y">>, <<"D", "Y">>}

ReadThroughGet == \E d \in DocIds, getOk \in BOOLEAN : read_through_get(d, getOk)

ReadThroughLoad == read_through_load

ReadThroughSet == \E setOk \in BOOLEAN : read_through_set(setOk)

RacingUpdateCommit ==
  \E d \in DocIds, c \in RaceContents : racing_update_commit(d, c)

RacingUpdateInvalidate == \E ok \in BOOLEAN : racing_update_invalidate(ok)

RacingUpdateSet == \E ok \in BOOLEAN : racing_update_set(ok)

ExpireDocumentContent == \E d \in DocIds : expire_document_content(d)

\* PUT /segments/{id} that overwrites the text of a segment
OverwriteText ==
  \E id \in AnyIds, text \in {<<"D">>, <<"D", "Y">>} :
    update_segment(id, [NoUpdate EXCEPT !.text = text], 1)

\* The four requests that set the status of a segment, each with a title
\* next to the status where the payload has one.
StatusValues == {"checked", "approved", "done"}
StatusIds == {0, 1, 2}             \* 0 is an id no segment ever has

StatusItem(status) == [NoUpdate EXCEPT !.title = "T2", !.status = status]

SetStatusByUpdate ==
  \E id \in StatusIds, status \in StatusValues :
    update_segment(id, StatusItem(status), 1)

SetStatusByStatus ==
  \E id \in StatusIds, status \in StatusValues : update_segment_status(id, status)

SetStatusByBulk ==
  \E d \in DocIds, id \in StatusIds, status \in StatusValues :
    bulk_segment_operations(d, <<>>, [i \in {id} |-> StatusItem(status)], {},
                            TRUE, TRUE)

SetStatusByBulkUpdate ==
  \E id \in StatusIds, status \in StatusValues :
    update_segments_bulk(<<StatusItem(status)>>, <<id>>)

\* PUT /segments/{id} that sets a title
AnnotateSegment ==
  \E id \in AnyIds : update_segment(id, [NoUpdate EXCEPT !.title = "T1"], 1)

\* bulk requests that only delete: one or two ids
BulkDeleteOnly ==
  \E d \in DocIds, del \in {x \in SUBSET AnyIds : Cardinality(x) \in {1, 2}} :
    bulk_segment_operations(d, <<>>, << >>, del, TRUE, TRUE)

\* the request carries the content to segment: the stored one or another
SegmentDocument ==
  \E d \in DocIds, content \in {docs[x].content : x \in DOMAIN docs} \cup {<<"Y">>},
     raw \in RawOffsets, aiOk \in BOOLEAN :
    segment_document(d, content, raw, aiOk)

DetectTextEndingsCall ==
  \E d \in DocIds, content \in {docs[x].content : x \in DOMAIN docs} :
    detect_text_endings_call(d, content)

GenerateContentResponse ==
  \E raw \in RawOffsets, aiOk \in BOOLEAN : generate_content_response(raw, aiOk)

DetectTextEndingsReturn == detect_text_endings_return

\* override contents: none, the marker alone, the marker after one character
OverrideContents == {NoText, <<"Y", "D", "D">>, <<"D", "Y", "D", "D">>}

SubdivideSegment ==
  \E segment_id \in AnyIds, content \in OverrideContents, raw \in RawOffsets,
     aiOk \in BOOLEAN :
    segment_and_create_from_parent(segment_id, content, raw, aiOk, TRUE, TRUE)

UpdateDocumentContent ==
  \E d \in DocIds, c \in Contents : update_document_content_commit(d, c)

UpdateDocumentContentInvalidate ==
  \E ok \in BOOLEAN : update_document_content_invalidate(ok)

UpdateDocumentContentSet == \E ok \in BOOLEAN : update_document_content_set(ok)

DeleteDocument == \E d \in DocIds : delete_document_commit(d)

DeleteDocumentInvalidate == \E ok \in BOOLEAN : delete_document_invalidate(ok)

UploadTexts == {NoText} \cup UNION {[1..k -> {"a", " ", "^"}] : k \in 0..2}

UploadDocument ==
  \E file_content \in UploadTexts \ {<<>>}, content \in UploadTexts,
     user_id \in {"u1"}, setOk \in BOOLEAN :
    upload_document(file_content, content, user_id, setOk)

DocumentStatuses == valid_statuses \cup {"archived"}
UserIds == {NoVal, "u1", "u2"}

UpdateDocumentStatus ==
  \E d \in DocIds \cup {"d0"}, status \in DocumentStatuses, user_id \in UserIds :
    update_document_status(d, status, user_id)

\* ------------------------------------------------------- specifications
\* The editing specifications start from an empty document or from one of
\* MaxLen characters, the opening marker followed by closing ones.
EditContents == {<<>>, [k \in 1..MaxLen |-> IF k = 1 THEN "Y" ELSE "D"]}

InitEdit == Init /\ \A d \in DocIds : docs[d].content \in EditContents

\* Spec: the editing endpoints of one document (read, update, split, merge,
\* delete, reset).
Next ==
  \/ GetDocument
  \/ UpdateSegment
  \/ SplitSegment
  \/ MergeSegments
  \/ DeleteSegment
  \/ ResetSegments

Spec == InitEdit /\ [][Next]_vars

\* SpecBulk: the bulk endpoint, with resets.
NextBulk ==
  \/ BulkSegmentOperations
  \/ ResetSegments

SpecBulk == InitEdit /\ [][NextBulk]_vars

\* SpecCache: content update and document deletion, step by step, with reads.
NextCache ==
  \/ GetDocument
  \/ UpdateDocumentContent
  \/ UpdateDocumentContentInvalidate
  \/ UpdateDocumentContentSet
  \/ DeleteDocument
  \/ DeleteDocumentInvalidate

SpecCache == Init /\ [][NextCache]_vars

\* SpecSegment: automatic segmentation, with reads and resets.
NextSegment ==
  \/ GetDocument
  \/ SegmentDocument
  \/ ResetSegments

SpecSegment == Init /\ [][NextSegment]_vars

\* SpecDetect: automatic segmentation of any content, with resets.  Neither
\* action touches the cache: the documents start with their content cached.
InitDetect == Init /\ \A d \in DocIds : cache[d] = docs[d].content

NextDetect ==
  \/ SegmentDocument
  \/ ResetSegments

SpecDetect == InitDetect /\ [][NextDetect]_vars

\* SpecStatus: the status endpoint of one document, owned by u1 or by
\* nobody.
InitStatus ==
  /\ \E c \in EditContents, owner \in {"u1", NoVal} :
       /\ docs = [d \in DocIds |-> OutlinerDocument(c, owner)]
       /\ cache = [d \in DocIds |-> c]
  /\ segs = << >>
  /\ nextId = 1
  /\ pc = Idle
  /\ last = NoLast

NextStatus == UpdateDocumentStatus

SpecStatus == InitStatus /\ [][NextStatus]_vars

\* SpecClassifier: automatic segmentation with the classifier call as steps
\* of its own.  SpecClassifierFair adds what the server guarantees: a
\* handler whose call returned goes on.  Nothing makes the classifier
\* answer.
NextClassifier ==
  \/ DetectTextEndingsCall
  \/ GenerateContentResponse
  \/ DetectTextEndingsReturn
  \/ ResetSegments

SpecClassifier == InitDetect /\ [][NextClassifier]_vars

SpecClassifierFair == SpecClassifier /\ WF_vars(DetectTextEndingsReturn)

\* SpecBulkDelete: bulk calls that only delete, on partitions made by reads
\* and splits.
NextBulkDelete ==
  \/ GetDocument
  \/ SplitSegment
  \/ BulkDeleteOnly
  \/ ResetSegments

SpecBulkDelete == InitEdit /\ [][NextBulkDelete]_vars

\* SpecProgress: automatic segmentation of documents whose segments get
\* titles, with resets.
NextProgress ==
  \/ SegmentDocument
  \/ AnnotateSegment
  \/ ResetSegments

SpecProgress == InitEdit /\ [][NextProgress]_vars

\* SpecCacheRace: a read of a document racing an update of its content,
\* with reads that run alone and cache entries that expire.
NextCacheRace ==
  \/ GetDocument
  \/ ExpireDocumentContent
  \/ ReadThroughGet
  \/ ReadThroughLoad
  \/ ReadThroughSet
  \/ RacingUpdateCommit
  \/ RacingUpdateInvalidate
  \/ RacingUpdateSet

SpecCacheRace == InitEdit /\ [][NextCacheRace]_vars

\* SpecSplitText: splits of segments whose text was overwritten, with reads
\* and resets.
NextSplitText ==
  \/ GetDocument
  \/ OverwriteText
  \/ SplitSegment
  \/ ResetSegments

SpecSplitText == InitEdit /\ [][NextSplitText]_vars

\* SpecSegmentStatus: the four ways to set the status of a segment, with
\* reads and resets.
NextSegmentStatus ==
  \/ GetDocument
  \/ ResetSegments
  \/ SetStatusByUpdate
  \/ SetStatusByStatus
  \/ SetStatusByBulk
  \/ SetStatusByBulkUpdate

SpecSegmentStatus == InitEdit /\ [][NextSegmentStatus]_vars

\* SpecCreate: POST /segments with reads and resets.
NextCreate ==
  \/ CreateSegment
  \/ GetDocument
  \/ ResetSegments

SpecCreate == InitEdit /\ [][NextCreate]_vars

\* SpecUpdate: PUT /segments/{id} with reads, splits and resets.
NextUpdate ==
  \/ GetDocument
  \/ UpdateSegment
  \/ SplitSegment
  \/ ResetSegments

SpecUpdate == InitEdit /\ [][NextUpdate]_vars

\* SpecBulkUpdate: PUT /segments/bulk with reads, splits and resets.
NextBulkUpdate ==
  \/ GetDocument
  \/ UpdateSegmentsBulk
  \/ SplitSegment
  \/ ResetSegments

SpecBulkUpdate == InitEdit /\ [][NextBulkUpdate]_vars

\* SpecMerge: two documents, so that a merge can name segments of both.
TwoDocIds == {"d1", "d2"}

InitMerge ==
  /\ docs = [d \in TwoDocIds |->
               OutlinerDocument(IF d = "d1" THEN <<"Y", "D", "D">> ELSE <<"D">>,
                                "u1")]
  /\ cache = [d \in TwoDocIds |-> docs[d].content]
  /\ segs = << >>
  /\ nextId = 1
  /\ pc = Idle
  /\ last = NoLast

GetDocumentOfTwo ==
  \E d \in TwoDocIds : get_document(d, TRUE, TRUE, TRUE, TRUE, TRUE, TRUE)

ResetSegmentsOfTwo == \E d \in TwoDocIds : reset_segments(d)

NextMerge ==
  \/ GetDocumentOfTwo
  \/ SplitSegment
  \/ MergeSegments
  \/ ResetSegmentsOfTwo

SpecMerge == InitMerge /\ [][NextMerge]_vars

\* SpecUpload: uploads into an empty store.
InitUpload ==
  /\ docs = [d \in {} |-> OutlinerDocument(<<>>, NoVal)]
  /\ cache = [d \in DocIds |-> NoCache]
  /\ segs = << >>
  /\ nextId = 1
  /\ pc = Idle
  /\ last = NoLast

NextUpload == UploadDocument

SpecUpload == InitUpload /\ [][NextUpload]_vars

\* SpecComment: the comment endpoints on the segment that a read creates.
NextComment ==
  \/ GetDocument
  \/ UpdateSegmentCommentField
  \/ AddSegmentComment
  \/ UpdateSegmentComment
  \/ DeleteSegmentComment

SpecComment == InitEdit /\ [][NextComment]_vars

\* SpecCommentRace: two handlers of POST /segments/{id}/comment at once.
NextCommentRace ==
  \/ GetDocument
  \/ AddSegmentCommentRead
  \/ AddSegmentCommentCommit

SpecCommentRace == InitEdit /\ [][NextCommentRace]_vars

\* SpecSubdivide: subdivision of segments, with reads, splits and resets.
NextSubdivide ==
  \/ GetDocument
  \/ SplitSegment
  \/ SubdivideSegment
  \/ ResetSegments

\* contents of SpecSubdivide: those of InitEdit and the marker's first character
InitSubdivide ==
  Init /\ \A d \in DocIds : docs[d].content \in EditContents \cup {<<"Y">>}

SpecSubdivide == InitSubdivide /\ [][NextSubdivide]_vars

\* ------------------------------------------------------------ properties
\* Invariant 1 of the data model on the rows S of document d: the indices
\* are exactly 0..N-1 and follow the order of span_start.
Invariant1(S, d) ==
  LET ids == SegsOf(S, d)
      N == Cardinality(ids)
  IN /\ {S[i].segment_index : i \in ids} = 0..(N - 1)
     /\ \A i, j \in ids :
          S[i].segment_index < S[j].segment_index => S[i].span_start <= S[j].span_start

\* Invariant 2: the first span starts at 0, the last ends at len(content),
\* and each span ends where the span of the next index starts.
Invariant2(S, content, d) ==
  LET ids == SegsOf(S, d)
      N == Cardinality(ids)
  IN \A i \in ids :
       /\ S[i].segment_index = 0 => S[i].span_start = 0
       /\ S[i].segment_index = N - 1 => S[i].span_end = Len(content)
       /\ \A j \in ids : S[j].segment_index = S[i].segment_index + 1
                           => S[i].span_end = S[j].span_start

ValidPartition(S, D, d) ==
  d \in DOMAIN D /\ Invariant1(S, d) /\ Invariant2(S, D[d].content, d)

\* C1: a successful split, merge or bulk operation on a document whose
\* segments form a valid partition leaves a valid partition.
C1_PartitionPreserved ==
  [][(/\ last'.op \in {"split", "merge", "bulk"}
      /\ last'.ok
      /\ ValidPartition(segs, docs, last'.d))
     => ValidPartition(segs', docs', last'.d)]_vars

\* C2: between requests the stored total_segments and annotated_segments of
\* every document equal a recount of its segments.
C2_CountersEqualRecount ==
  pc = Idle =>
    \A d \in DOMAIN docs :
      /\ docs[d].total_segments = Cardinality(SegsOf(segs, d))
      /\ docs[d].annotated_segments = CountAnnotated(segs, d)

\* C3: a split followed by the merge of its two halves gives back one
\* segment with the original text and span, and the total_segments the
\* document had before the split.
C3_SplitMergeRoundTrip ==
  (last.op = "merge" /\ last.ok /\ last.rt) =>
    /\ last.a \in DOMAIN segs
    /\ segs[last.a].text = last.otext
    /\ segs[last.a].span_start = last.ostart
    /\ segs[last.a].span_end = last.oend
    /\ docs[last.d].total_segments = last.ototal

\* C4: a bulk call whose update list names an id that is not a segment of
\* the document fails, and the segments and the document row (counters
\* included) are what they were before the call.
C4_BulkMissingUpdateIdPersistsNothing ==
  [][(last'.op = "bulk" /\ last'.p > 0) =>
       (~last'.ok /\ segs' = segs /\ docs' = docs /\ nextId' = nextId)]_vars

\* a bulk call whose delete phase had removed a stored segment has been
\* refused for a missing id of its update list, and the segment is stored
C4_Witness ==
  /\ last.op = "bulk" /\ ~last.ok /\ last.err = "404_update"
  /\ last.p > 0 /\ last.n > 0
  /\ SegsOf(segs, last.d) # {}

C6_MergeSemantics ==
  [][(/\ last'.op = "merge" /\ last'.ok
      /\ \A i, j \in last'.ids :
           i # j => segs[i].segment_index # segs[j].segment_index) =>
       LET ids == last'.ids
           d == last'.d
           lo == CHOOSE i \in ids :
                   \A j \in ids : segs[i].segment_index <= segs[j].segment_index
           hi == CHOOSE i \in ids :
                   \A j \in ids : segs[j].segment_index <= segs[i].segment_index
       IN /\ DOMAIN segs' = DOMAIN segs \ (ids \ {lo})
          /\ \E f \in OrderedByIndex(segs, ids) :
               /\ segs'[lo].text = JoinTexts([k \in 1..Len(f) |-> segs[f[k]].text])
               /\ segs'[lo].title = FirstTruthy([k \in 1..Len(f) |-> segs[f[k]].title])
               /\ segs'[lo].author = FirstTruthy([k \in 1..Len(f) |-> segs[f[k]].author])
               /\ segs'[lo].title_bdrc_id =
                    FirstTruthy([k \in 1..Len(f) |-> segs[f[k]].title_bdrc_id])
               /\ segs'[lo].author_bdrc_id =
                    FirstTruthy([k \in 1..Len(f) |-> segs[f[k]].author_bdrc_id])
          /\ segs'[lo].span_start = segs[lo].span_start
          /\ segs'[lo].span_end = segs[hi].span_end
          /\ segs'[lo].is_annotated =
               (\E i \in ids : Truthy(segs[i].title) \/ Truthy(segs[i].author))
          /\ docs'[d].total_segments =
               docs[d].total_segments - (Cardinality(ids) - 1)]_vars

\* C7: no state has new content (or a deletion) committed while the cache
\* entry of the document still holds other content.
C7_NoStaleEntryAfterCommit ==
  \A d \in DocIds :
    cache[d] # NoCache => (d \in DOMAIN docs /\ cache[d] = docs[d].content)

\* C8: once update_document_content(d, c) has returned, a read of d through
\* get_document_with_cache returns c, whatever cache operations failed.
C8_ReadAfterUpdate ==
  (last.op = "update_content" /\ last.ok /\ pc = Idle) =>
    \A m \in CacheModes :
      get_document_with_cache(docs[last.d].content, cache[last.d],
                              m[1], m[2]).content = last.otext

\* C9: after segment_document succeeds no segment the document had before
\* the call is left, and total_segments equals the number of stored segments.
C9_SegmentDocumentReplaces ==
  (last.op = "segment_document" /\ last.ok) =>
    /\ last.ids \cap SegsOf(segs, last.d) = {}
    /\ docs[last.d].total_segments = Cardinality(SegsOf(segs, last.d))

\* C10: segment_document on a document without segments, given the stored
\* content, leaves segments that satisfy invariants 1 and 2, one per offset,
\* with total_segments equal to the number of offsets, in either phase.
C10_SegmentDocumentPartition ==
  (/\ last.op = "segment_document" /\ last.ok
   /\ last.ids = {}
   /\ last.otext = docs[last.d].content) =>
    /\ ValidPartition(segs, docs, last.d)
    /\ Cardinality(SegsOf(segs, last.d)) = last.a
    /\ docs[last.d].total_segments = last.a

\* C11: a successful subdivide_segment of a segment with index i and span
\* [s, e) of a valid partition replaces it by n >= 1 children at indices
\* i..i+n-1 with contiguous spans from s to e, shifts every later index by
\* n-1, and leaves a valid partition, with or without override content.
C11_SubdividePreservesPartition ==
  [][(/\ last'.op = "subdivide" /\ last'.ok
      /\ ValidPartition(segs, docs, last'.d)) =>
       LET d == last'.d
           a == last'.a
           n == last'.n
           i == last'.ototal
           kids == last'.ids
       IN /\ n >= 1 /\ Cardinality(kids) = n
          /\ DOMAIN segs' = (DOMAIN segs \ {a}) \cup kids
          /\ {segs'[k].segment_index : k \in kids} = i..(i + n - 1)
          /\ \A k \in kids :
               /\ last'.ostart <= segs'[k].span_start
               /\ segs'[k].span_start <= segs'[k].span_end
               /\ segs'[k].span_end <= last'.oend
               /\ segs'[k].segment_index = i => segs'[k].span_start = last'.ostart
               /\ segs'[k].segment_index = i + n - 1 => segs'[k].span_end = last'.oend
               /\ \A m \in kids :
                    segs'[m].segment_index = segs'[k].segment_index + 1
                      => segs'[k].span_end = segs'[m].span_start
          /\ \A j \in SegsOf(segs, d) \ {a} :
               segs'[j].segment_index =
                 IF segs[j].segment_index > i
                   THEN segs[j].segment_index + (n - 1) ELSE segs[j].segment_index
          /\ ValidPartition(segs', docs', d)]_vars

\* C12: subdivide_segment invokes the classifier exactly when the rule phase
\* yields no position or exactly one, and with no rule position the outcome
\* is the one the classifier's offsets determine (no failure before it).
C12_ClassifierFallback ==
  [][(last'.op = "subdivide"
      /\ last'.err \notin {"404", "400_span", "400_empty"}) =>
       /\ (last'.b = 1) <=> (last'.p <= 1)
       /\ last'.p = 0 => last'.err # "500_none"]_vars

\* C13: create with span_start < 0, span_end > len(content) or
\* span_start >= span_end fails and creates no segment, with or without a
\* text given by the caller.
C13_CreateValidatesSpan ==
  [][(/\ last'.op = "create" /\ last'.d \in DOMAIN docs
      /\ \/ last'.ostart < 0
         \/ last'.oend > Len(docs[last'.d].content)
         \/ last'.ostart >= last'.oend) =>
       (~last'.ok /\ segs' = segs)]_vars

\* C14: a split succeeds only with 0 < split_position < len(segment text),
\* and a failed split leaves the segments and the counters of every
\* document as they were, the lazy-materialization path included.
C14_FailedSplitHasNoEffect ==
  [][(last'.op = "split") =>
       /\ last'.ok => (0 < last'.p /\ last'.p < Len(last'.otext))
       /\ ~last'.ok =>
            /\ segs' = segs
            /\ \A d \in DOMAIN docs :
                 /\ docs'[d].total_segments = docs[d].total_segments
                 /\ docs'[d].annotated_segments = docs[d].annotated_segments]_vars

\* C15: an update whose status is none of unchecked, checked, approved
\* fails, and every stored segment (the title given in the same call
\* included) and the document's counters are what they were; an update that
\* succeeds leaves one of the three statuses.
C15_InvalidStatusChangesNothing ==
  [][(last'.op = "update" /\ last'.err # "404") =>
       /\ last'.err = "400" => (segs' = segs /\ docs' = docs)
       /\ last'.ok =>
            segs'[last'.a].status \in {"unchecked", "checked", "approved"}]_vars

\* an update with title T2 and a status outside the set was refused for a
\* stored segment, which does not have that title
C15_Witness ==
  /\ last.op = "update" /\ ~last.ok /\ last.err = "400"
  /\ last.a \in DOMAIN segs
  /\ segs[last.a].title # "T2"
  /\ segs[last.a].status \in {"unchecked", "checked", "approved"}

\* C16: a successful delete removes exactly the named segment, lowers by 1
\* the index of every segment of the document with a greater index, leaves
\* the other segments unchanged (indices 0..N-1 become 0..N-2), lowers
\* total_segments by 1, and annotated_segments by 1 iff the deleted segment
\* was annotated.
C16_DeleteSemantics ==
  [][(last'.op = "delete" /\ last'.ok) =>
       LET a == last'.a
           d == last'.d
           N == Cardinality(SegsOf(segs, d))
       IN /\ a \in DOMAIN segs
          /\ DOMAIN segs' = DOMAIN segs \ {a}
          /\ \A i \in DOMAIN segs \ {a} :
               segs'[i] =
                 IF segs[i].document_id = d
                    /\ segs[i].segment_index > segs[a].segment_index
                   THEN [segs[i] EXCEPT !.segment_index = @ - 1]
                   ELSE segs[i]
          /\ {segs[i].segment_index : i \in SegsOf(segs, d)} = 0..(N - 1)
               => {segs'[i].segment_index : i \in SegsOf(segs', d)} = 0..(N - 2)
          /\ docs'[d].total_segments = docs[d].total_segments - 1
          /\ docs'[d].annotated_segments =
               docs[d].annotated_segments - (IF segs[a].is_annotated THEN 1 ELSE 0)]_vars

\* C17: a successful delete on a document with N >= 2 segments that form a
\* valid partition leaves segments that satisfy invariant 2: adjacent spans
\* meet, the first starts at 0, the last ends at len(content).
C17_DeleteKeepsPartition ==
  [][(/\ last'.op = "delete" /\ last'.ok
      /\ Cardinality(SegsOf(segs, last'.d)) >= 2
      /\ ValidPartition(segs, docs, last'.d))
     => Invariant2(segs', docs'[last'.d].content, last'.d)]_vars

\* C18: every segment whose text was derived has text equal to
\* content[span_start:span_end] of the stored content of its document.  No
\* action of Spec, SpecSegment, SpecSubdivide or SpecCache takes a segment
\* text from the caller, so there every stored text is a derived one.
C18_DerivedTextIsContentSlice ==
  pc = Idle =>
    \A i \in DOMAIN segs :
      segs[i].document_id \in DOMAIN docs =>
        segs[i].text = PySlice(docs[segs[i].document_id].content,
                               segs[i].span_start, segs[i].span_end)

\* C19: in every state between requests the stored is_annotated of each
\* segment is true iff its title or its author is set.
C19_AnnotatedIffTitleOrAuthor ==
  pc = Idle =>
    \A i \in DOMAIN segs :
      segs[i].is_annotated <=> (Truthy(segs[i].title) \/ Truthy(segs[i].author))

\* C20: in a successful bulk call that only creates, the items without a
\* segment_index get max+1, max+2, ... in list order, max being the largest
\* index among the document's segments (-1 when it has none), so none of
\* them gets the index of an existing segment.
C20_BulkAutoIndexAfterMax ==
  [][(/\ last'.op = "bulk" /\ last'.ok
      /\ last'.n = 0 /\ last'.b = 0 /\ last'.ids # {}) =>
       LET d == last'.d
           existing == SegsOf(segs, d)
           max == IF existing = {} THEN -1
                  ELSE Max({segs[i].segment_index : i \in existing})
       IN /\ \A i \in last'.ids :
               segs'[i].segment_index =
                 max + Cardinality({j \in last'.ids : j <= i})
          /\ \A i \in last'.ids, j \in existing :
               segs'[i].segment_index # segs[j].segment_index]_vars

\* C21: a merge succeeds only for at least 2 ids that all resolve to
\* segments of one document; a merge that is rejected (too few ids, an id
\* that does not resolve, segments of different documents) leaves every
\* segment and every document row, counters included, as it was.
C21_RejectedMergeChangesNothing ==
  [][(last'.op = "merge") =>
       /\ last'.ok =>
            /\ Cardinality(last'.ids) >= 2
            /\ last'.ids \subseteq DOMAIN segs
            /\ \A i, j \in last'.ids : segs[i].document_id = segs[j].document_id
       /\ ~last'.ok => (segs' = segs /\ docs' = docs)]_vars

\* a merge that named segments of two documents has been refused, and both
\* documents still have segments
C21_Witness ==
  /\ last.op = "merge" /\ ~last.ok /\ last.err = "400" /\ last.d # "-"
  /\ \A d \in TwoDocIds : d \in DOMAIN docs /\ SegsOf(segs, d) # {}

\* what a reader of the comment field takes as its entries: the list, or
\* the one comment that a stored string is
CommentEntries(seg) ==
  IF seg.comment.kind = "str" /\ seg.comment.str # ""
    THEN <<seg.comment.str>>
    ELSE [k \in 1..Len(seg.comment.items) |-> seg.comment.items[k].content]

\* C22: a successful append leaves the previous comments of the segment, in
\* their order, followed by exactly one new entry, whether the stored field
\* was null, a list, or a string set through update.
C22_AppendKeepsComments ==
  [][(last'.op = "comment_add" /\ last'.ok) =>
       LET a == last'.a
           before == CommentEntries(segs[a])
           after == CommentEntries(segs'[a])
       IN /\ Len(after) = Len(before) + 1
          /\ SubSeq(after, 1, Len(before)) = before
          /\ segs[a].comment.kind = "list" =>
               SubSeq(segs'[a].comment.items, 1, Len(before)) = segs[a].comment.items]_vars

C24_ConcurrentAppendLostUpdate ==
  [][(last'.op = "comment_add_commit") =>
       LET a == last'.a
           req == pc.c[last'.b]
           read == SubSeq(req.existing_comments, 1, Len(req.existing_comments) - 1)
           stored == get_comments_list(segs[a])
       IN /\ last'.ok
          /\ get_comments_list(segs'[a]) = req.existing_comments
          /\ (Len(stored) > Len(read) /\ last'.rt) =>
               Len(get_comments_list(segs'[a])) <= Len(stored)]_vars

\* two appends read the empty list, both have committed, one comment is stored
C24_Witness ==
  /\ pc = Idle
  /\ last.op = "comment_add_commit" /\ last.ok /\ last.rt
  /\ Len(get_comments_list(segs[last.a])) = 1

\* C25: a request in which a cache call fails (GET, SETEX or DEL; the whole
\* cache unavailable included) ends as it would with an empty cache: a read
\* succeeds, leaves the stored content as it was and creates the first
\* segment from the stored content; the cache steps of a content update and
\* of a document deletion succeed and leave the store alone.
C25_CacheFailureAsEmptyCache ==
  [][LET read_ok ==
           \A d \in DOMAIN docs, m1, m2, m3 \in CacheModes :
             (/\ {m1, m2, m3} # {<<TRUE, TRUE>>}
              /\ get_document(d, m1[1], m1[2], m2[1], m2[2], m3[1], m3[2]))
               => /\ last'.ok
                  /\ docs'[d].content = docs[d].content
                  /\ \A i \in DOMAIN segs' \ DOMAIN segs :
                       /\ segs'[i].text = docs[d].content
                       /\ segs'[i].span_start = 0
                       /\ segs'[i].span_end = Len(docs[d].content)
         write_ok ==
           (\/ update_document_content_invalidate(FALSE)
            \/ update_document_content_set(FALSE)
            \/ delete_document_invalidate(FALSE))
               => /\ last'.ok
                  /\ docs' = docs /\ segs' = segs
     IN read_ok /\ write_ok]_vars

\* C26: a successful read of a document without segments creates exactly one
\* segment, with index 0 and span [0, len(content)), and leaves
\* total_segments at 1; a read of a document that has segments creates
\* none and leaves total_segments as it was.
C26_EnsureSegmentedIdempotent ==
  [][(last'.op = "get" /\ last'.ok) =>
       LET d == last'.d
       IN IF SegsOf(segs, d) = {}
            THEN /\ Cardinality(SegsOf(segs', d)) = 1
                 /\ \A i \in SegsOf(segs', d) :
                      /\ segs'[i].segment_index = 0
                      /\ segs'[i].span_start = 0
                      /\ segs'[i].span_end = Len(docs'[d].content)
                 /\ docs'[d].total_segments = 1
            ELSE /\ segs' = segs
                 /\ docs'[d].total_segments = docs[d].total_segments]_vars

\* The list of start offsets a successful segment_document received from the
\* detector: create_segments_from_positions stores offset k of the list as
\* the span_start of the k-th new row, which has segment_index k - 1.
ReturnedPositions(S, ids) ==
  [k \in 1..Cardinality(ids) |->
     S[CHOOSE i \in ids : S[i].segment_index = k - 1].span_start]

C28_OnlyOwnerRestores ==
  [][(last'.op = "update_document_status") =>
       LET d == last'.d
           status == last'.otext[1]
           user_id == last'.otext[2]
       IN /\ (/\ d \in DOMAIN docs /\ last.rt
              /\ docs[d].status # "active" /\ docs'[d].status = "active")
               => (Truthy(user_id) /\ user_id = docs[d].user_id)
          /\ status \notin valid_statuses
               => (~last'.ok /\ docs' = docs)]_vars

\* a text that is empty or holds only whitespace
Blank(text) == \A i \in DOMAIN text : text[i] = " "

\* C29: an upload creates a document exactly when the file (control
\* characters removed) or the content field carries a non-blank text;
\* otherwise it fails with a 400, stores no document and writes no cache
\* entry.
C29_UploadIffNonBlank ==
  [][(last'.op = "upload") =>
       LET file_content == last'.otext[1]
           content == last'.otext[2]
           supplied ==
             \/ /\ file_content # NoText
                /\ ~Blank(remove_escape_chars_except_newline(file_content))
             \/ content # NoText /\ ~Blank(content)
       IN /\ last'.ok <=> supplied
          /\ last'.ok => /\ DOMAIN docs' = DOMAIN docs \cup {last'.d}
                         /\ last'.d \notin DOMAIN docs
                         /\ ~Blank(docs'[last'.d].content)
          /\ ~last'.ok => /\ last'.err \in {"400_required", "400_empty"}
                          /\ docs' = docs /\ cache' = cache]_vars

\* C30: a request that falls back to the classifier invokes it once, from
\* the start of the request and never again before the request ends, and
\* the request eventually completes even if the classifier never answers.
C30_ClassifierCallCompletes ==
  /\ [][(pc'.at = "classifier" /\ pc' # pc) => pc = Idle]_vars
  /\ (pc.at = "classifier") ~> (pc = Idle)

\* the rows `ids` of one document have indices that form an interval
ConsecutiveInIndex(S, ids) ==
  LET idx == {S[i].segment_index : i \in ids}
  IN /\ Cardinality(idx) = Cardinality(ids)
     /\ idx = Min(idx)..Max(idx)

\* C31: a successful merge of k >= 2 segments that are consecutive in index
\* order within a valid partition of N segments leaves a valid partition of
\* N - k + 1 segments: indices exactly 0..N-k in the order of span_start,
\* spans contiguous from 0 to len(content).
C31_MergeConsecutiveKeepsPartition ==
  [][(/\ last'.op = "merge" /\ last'.ok
      /\ ValidPartition(segs, docs, last'.d)
      /\ ConsecutiveInIndex(segs, last'.ids))
     => /\ ValidPartition(segs', docs', last'.d)
        /\ Cardinality(SegsOf(segs', last'.d)) =
             Cardinality(SegsOf(segs, last'.d)) - Cardinality(last'.ids) + 1]_vars

C31_Witness ==
  /\ last.op = "merge" /\ last.ok
  /\ Cardinality(last.ids) = 2
  /\ ValidPartition(segs, docs, last.d)
  /\ \E i \in SegsOf(segs, last.d) :
       i # last.a /\ segs[i].segment_index = 1 /\ segs[last.a].segment_index = 0

\* the rows of document d carry each index of 0..N-1 exactly once
IndicesExact(S, d) ==
  /\ {S[i].segment_index : i \in SegsOf(S, d)} = 0..(Cardinality(SegsOf(S, d)) - 1)
  /\ \A i, j \in SegsOf(S, d) : S[i].segment_index = S[j].segment_index => i = j

\* C32: after a successful bulk call that only deletes k of the N segments
\* of a document whose indices are exactly 0..N-1, the surviving segments
\* have the indices 0..N-k-1, each once, whether or not the deleted ones
\* were consecutive.
C32_BulkDeleteKeepsIndices ==
  [][(/\ last'.op = "bulk" /\ last'.ok
      /\ last'.a = 0 /\ last'.b = 0 /\ last'.n >= 1
      /\ IndicesExact(segs, last'.d))
     => /\ Cardinality(SegsOf(segs', last'.d)) =
             Cardinality(SegsOf(segs, last'.d)) - last'.n
        /\ IndicesExact(segs', last'.d)]_vars

\* C33: in every state between requests every document has
\* 0 <= annotated_segments <= total_segments (so that the percentage
\* update_progress derives from them lies in 0..100 and is 0 for no segment).
C33_CountersWithinBounds ==
  pc = Idle =>
    \A d \in DOMAIN docs :
      /\ 0 <= docs[d].annotated_segments
      /\ docs[d].annotated_segments <= docs[d].total_segments

\* C34: single update, update-status, the update phase of bulk and
\* bulk-update accept exactly the statuses unchecked, checked and approved:
\* for a stored segment each of them succeeds and stores an accepted status,
\* and fails and changes nothing for any other status.
C34_StatusPathsAgree ==
  [][\A id \in DOMAIN segs, status \in StatusValues :
       (\/ update_segment(id, StatusItem(status), 1)
        \/ update_segment_status(id, status)
        \/ bulk_segment_operations(segs[id].document_id, <<>>,
                                   [i \in {id} |-> StatusItem(status)], {},
                                   TRUE, TRUE)
        \/ update_segments_bulk(<<StatusItem(status)>>, <<id>>))
         => IF status \in {"unchecked", "checked", "approved"}
              THEN last'.ok /\ segs'[id].status = status
              ELSE ~last'.ok /\ segs' = segs]_vars

\* C35: every segment a successful segment_document creates has
\* 0 <= span_start < span_end <= len(content), whatever list of integers the
\* classifier returned (negative offsets and offsets equal to len(content)
\* included).
C35_CreatedSpansWithinContent ==
  [][(last'.op = "segment_document" /\ last'.ok) =>
       \A i \in DOMAIN segs' \ DOMAIN segs :
         /\ 0 <= segs'[i].span_start
         /\ segs'[i].span_start < segs'[i].span_end
         /\ segs'[i].span_end <= Len(last'.otext)]_vars

\* C36: after every successful split both resulting segments have a
\* non-empty span that lies inside the span the split segment had, also when
\* the text of the segment was overwritten with a text of another length.
C36_SplitSpansNonEmpty ==
  [][(last'.op = "split" /\ last'.ok) =>
       \A i \in {last'.a, last'.b} :
         /\ last'.ostart <= segs'[i].span_start
         /\ segs'[i].span_start < segs'[i].span_end
         /\ segs'[i].span_end <= last'.oend]_vars

\* Invariants 2 and 4 of the segments of document d against a content: the
\* spans tile 0..len(content), lie within the content, and each stored text
\* is the slice of the content its span names.
SegmentsFitContent(S, content, d) ==
  /\ Invariant1(S, d)
  /\ Invariant2(S, content, d)
  /\ \A i \in SegsOf(S, d) :
       /\ 0 <= S[i].span_start
       /\ S[i].span_start <= S[i].span_end
       /\ S[i].span_end <= Len(content)
       /\ S[i].text = PySlice(content, S[i].span_start, S[i].span_end)

\* C37: after a successful update_document_content on a document that has
\* segments fitting the old content, the segments fit the new content: the
\* last span_end is its length, every span lies within it and every stored
\* text equals the slice of the new content.
C37_SegmentsFollowNewContent ==
  [][(/\ last'.op = "update_content" /\ last'.ok
      /\ last.op = "update_content_commit"
      /\ SegsOf(segs, last'.d) # {}
      /\ SegmentsFitContent(segs, last.otext, last'.d))
       => SegmentsFitContent(segs', docs'[last'.d].content, last'.d)]_vars

\* C38: when a read-through of a document's content (miss, load, set) ran
\* concurrently with update_document_content of the same document (commit,
\* invalidate, set) and no cache operation failed, then once both have
\* completed the cache entry is absent or equal to the committed content.
C38_RaceLeavesCacheFresh ==
  (pc = Idle /\ last.op = "read_update_race" /\ ~last.rt) =>
    cache[last.d] \in {NoCache, docs[last.d].content}

\* C39: the stored content of a document is changed only by
\* update_document_content: no read through the cache and no segment
\* operation that loads the document through it changes the stored content,
\* even when the cache entry differs from the stored content.
C39_OnlyUpdateChangesContent ==
  [][\A d \in DOMAIN docs \cap DOMAIN docs' :
       docs'[d].content # docs[d].content
         => last'.op = "update_content_commit" /\ last'.d = d]_vars

====
